---- MODULE Spec2Model ----
(***************************************************************************)
(* Field Room sync service (src/clawdbot-connector/sync-service.js, the    *)
(* first service in that file, lines 1-711): the room relay with clients,  *)
(* chat history, notes and location meetings.                              *)
(*                                                                         *)
(* JavaScript strings are sequences of one-character strings, so that      *)
(* template literals are concatenations and startsWith / regular           *)
(* expressions are computed on the characters.  Fixed pieces of text that  *)
(* no code inspects are single tokens ("Location: ").                    *)
(*                                                                         *)
(* The service is single-threaded: every action below is one synchronous   *)
(* segment of a handler, from the arrival of a message (or the resumption  *)
(* of an await) to the next await or the handler's end.  A suspended       *)
(* handler is a record in the bag `tasks`.                                 *)
(***************************************************************************)
EXTENDS Integers, Sequences, FiniteSets, Bags, TLC

\* ---------------------------------------------------------------- bounds
NumConn == 3          \* connections accepted over the run
MaxOps == 2           \* events (messages, closes) delivered to a room of registered sessions
MaxOpsFull == 3       \* events delivered to an empty room
MaxTasks == 2         \* handlers suspended at the same time
MaxExtra == 2         \* appends made on top of a pre-filled chat history
MaxWindow == 3        \* configured context windows: CONTEXT_MESSAGES in 0..MaxWindow
MaxRecords == 3       \* records in the short chat histories contexts are built from

\* ------------------------------------------------------ program constants
MAX_HISTORY == 100
DEFAULT_CONTEXT_MESSAGES == 10
HISTORY_SNAPSHOT == 20
AI_USER_ID == <<"p", "a", "u", "l", "i", "n", "e">>
LOG_CHAT == TRUE

\* ------------------------------------------------------------ input sets
Conn == 1..NumConn
Minute == {0, 1}
StartMinute == {0}
ALICE == <<"a", "l">>
BOB == <<"b", "o">>
User == {ALICE, BOB, AI_USER_ID}
HELLO == <<"h", "i">>
MENTION == <<"@", "P", "a", "u", "l", "i", "n", "e", " ", "h", "i">>
Text == {HELLO, MENTION}
\* chat texts around the AI's name: what stands before it, how it is written, what follows
MentionPre == {<<>>, <<"x">>, <<"@">>, <<" ">>, <<"_">>, <<"1">>, <<"-">>, <<"x", "@">>,
               <<"h", "e", "y", " ", "@">>}
MentionCore == {<<"p", "a", "u", "l", "i", "n", "e">>, <<"P", "A", "U", "L", "I", "N", "E">>,
                <<"P", "a", "u", "l", "i", "n", "e">>, <<"p", "a", "u", "l", "i", "n">>}
MentionPost == {<<>>, <<"x">>, <<"?">>, <<" ">>, <<"_">>, <<"1">>, <<"'", "s">>,
                <<" ", "p", "l", "e", "a", "s", "e">>,
                <<"x", " ", "p", "a", "u", "l", "i", "n", "e">>}
MentionText == {pre \o core \o post : pre \in MentionPre, core \in MentionCore,
                                       post \in MentionPost}
Undef == [t |-> "undefined"]
Num(n) == [t |-> "number", v |-> n]
Coord == {Undef, Num(0), Num(52)}
LocName == {<<>>, <<"H", "Q">>}
\* the (lat, lng, locationName) of a start request
StartArgs == {a \in Coord \X Coord \X LocName : a[3] # <<>> => (a[1] = Num(52) /\ a[2] = Num(52))}
Null == [t |-> "null"]
\* the (lat, lng, locationName, text) of a note add request
NoteArgs == {<<Undef, Undef, <<>>, <<>> >>,
             <<Num(0), Num(52), <<>>, HELLO>>,
             <<Num(52), Num(52), <<"H", "Q">>, HELLO>>}
\* the noteId of a note delete request; NoNoteId stands for a request without one
NoNoteId == 0
NoteId == {NoNoteId, 1, 2, 3}
IdPool == {<<"k">>, <<"k", "1">>}
MeetingArg == IdPool \cup {<<>>, <<"z">>}
NoReply == 0
\* the keys a state_update may set, and the values it may give them
StateKey == {"currentProject", "activeLayer"}
NoValue == 0
StateValue == {1, 2}
\* the `update` objects of the state_update messages
Update == {u \in [StateKey -> StateValue \cup {NoValue}] : \E key \in StateKey : u[key] # NoValue}
\* the places a move message may report: on the meridian of the notes, one degree or more apart
Place == {[lat |-> Num(52), lng |-> Num(52)], [lat |-> Num(0), lng |-> Num(52)]}
InvokeId == {NoReply, 900}
Completion == {[ok |-> TRUE, content |-> <<"y", "e", "s">>],
               [ok |-> TRUE, content |-> <<>>],
               [ok |-> FALSE, content |-> <<"5", "0", "2">>]}

\* ------------------------------------------------------- string helpers
LowerCase == <<"a", "b", "c", "d", "e", "f", "g", "h", "i", "j", "k", "l", "m",
               "n", "o", "p", "q", "r", "s", "t", "u", "v", "w", "x", "y", "z">>
UpperCase == <<"A", "B", "C", "D", "E", "F", "G", "H", "I", "J", "K", "L", "M",
               "N", "O", "P", "Q", "R", "S", "T", "U", "V", "W", "X", "Y", "Z">>
Digit == <<"0", "1", "2", "3", "4", "5", "6", "7", "8", "9">>

Lower(c) ==
  IF \E i \in 1..26 : UpperCase[i] = c
    THEN LowerCase[CHOOSE i \in 1..26 : UpperCase[i] = c]
    ELSE c

IsWordChar(c) ==
  \/ \E i \in 1..26 : LowerCase[i] = c \/ UpperCase[i] = c
  \/ \E i \in 1..10 : Digit[i] = c
  \/ c = "_"

RECURSIVE NumStr(_)
NumStr(n) == IF n < 10 THEN <<Digit[n + 1]>> ELSE NumStr(n \div 10) \o <<Digit[(n % 10) + 1]>>

Zeros(d) == [i \in 1..d |-> "0"]
ToFixed(n, d) == NumStr(n) \o <<".">> \o Zeros(d)

StartsWith(s, p) == Len(p) <= Len(s) /\ SubSeq(s, 1, Len(p)) = p

RECURSIVE Join(_, _)
Join(ss, sep) ==
  IF ss = <<>> THEN <<>>
  ELSE IF Len(ss) = 1 THEN ss[1]
  ELSE ss[1] \o sep \o Join(Tail(ss), sep)

\* ------------------------------------------------------------ date helpers
Pad2(n) == IF n < 10 THEN <<"0">> \o NumStr(n) ELSE NumStr(n)
\* now.toLocaleTimeString('en-GB', {hour, minute}) for a Date in minute n
TimeStr(n) == <<"1", "2", ":">> \o Pad2(n)
\* now.toLocaleDateString('en-GB', {...})
DateStr(n) == <<"Monday 2 November 2026">>
\* `meeting_${iso.slice(0, 10)}_${iso.slice(11, 16).replace(':', '')}.txt`
FileName(n) == <<"meeting_", "2026-11-02", "_">> \o <<"1", "2">> \o Pad2(n) \o <<".txt">>

SYSTEM == <<"s", "y", "s", "t", "e", "m">>

\* JavaScript truthiness of the values a request field takes here
Falsy(x) == x.t = "undefined" \/ (x.t = "number" /\ x.v = 0)

\* ------------------------------------------------------ mention detection
WordAt(s, i) == i \in 1..Len(s) /\ IsWordChar(s[i])
\* \b before the character at position p
Boundary(s, p) == WordAt(s, p - 1) # WordAt(s, p)
MatchAt(s, i, pat) ==
  /\ i >= 1
  /\ i + Len(pat) - 1 <= Len(s)
  /\ \A k \in 1..Len(pat) : Lower(s[i + k - 1]) = Lower(pat[k])

\* mutant of isMentioned: the word boundaries are not tested
isMentioned_NoBoundary(text) ==
  \E i \in 1..Len(text) : MatchAt(text, i, AI_USER_ID)

isMentioned(text) ==
  \/ \E i \in 1..Len(text) :
       /\ text[i] = "@"
       /\ MatchAt(text, i + 1, AI_USER_ID)
       /\ Boundary(text, i + 1 + Len(AI_USER_ID))
  \/ \E i \in 1..Len(text) :
       /\ Boundary(text, i)
       /\ MatchAt(text, i, AI_USER_ID)
       /\ Boundary(text, i + Len(AI_USER_ID))

\* ----------------------------------------------------------------- state
VARIABLES
  clients,         \* clients Map: connection id -> client record (reg = FALSE: no entry)
  transport,       \* ws.readyState of each connection
  chatHistory,     \* chatHistory array
  notes,           \* notes array
  notesFile,       \* contents of notes.json
  activeMeetings,  \* keys of the activeMeetings Map, in insertion order
  meetingObj,      \* the meeting objects, by id (also referenced by suspended end handlers)
  files,           \* workspace/meetings: file name -> contents
  tasks,           \* bag of suspended handlers
  nextId,          \* ids handed out to chat records and notes
  ops,             \* events (messages, closes) the connections may still deliver
  sent,            \* the sends made by the last step, in order
  produced,        \* history: per meeting, notes / artifact writes / meeting_ended broadcasts made
  chatDue,         \* history: (chat id, meeting) pairs a chat was owed to when it was appended
  CONTEXT_MESSAGES, \* CONFIG.CONTEXT_MESSAGES, read from the environment at start-up
  stateFile,       \* contents of state.json: key -> value (NoValue where the key is not set)
  location,        \* the location field of each registered session
  order,           \* keys of the clients Map, in insertion order
  greeted,         \* history: the connections that were sent a snapshot
  stateDue         \* history: the keys set by the state updates that were saved

vars == <<clients, transport, chatHistory, notes, notesFile, activeMeetings, meetingObj,
          files, tasks, nextId, ops, sent, produced, chatDue, CONTEXT_MESSAGES, stateFile,
          location, order, greeted, stateDue>>

NoClient == [reg |-> FALSE, userId |-> <<>>]
NoMeeting == [id |-> <<>>, lat |-> Undef, lng |-> Undef, locationName |-> <<>>,
              startedBy |-> <<>>, startedAt |-> 0, participants |-> <<>>, transcript |-> <<>>]
NoFile == <<"ENOENT">>
NoProduced == [notes |-> 0, files |-> 0, ended |-> 0]

\* ------------------------------------------------------------- send helpers
Registered(cl, c) == cl[c].reg
Open(c) == transport[c] = "OPEN"

\* mutants of broadcast: nobody is excluded / readyState is not looked at
broadcast_NoExclude(cl, message, exclude) ==
  [via |-> "broadcast", msg |-> message,
   rcpt |-> {c \in Conn : Registered(cl, c) /\ Open(c)}]

broadcast_AnyReadyState(cl, message, exclude) ==
  [via |-> "broadcast", msg |-> message,
   rcpt |-> {c \in Conn : Registered(cl, c) /\ c # exclude}]

\* broadcast(message, excludeClientId): exclude = 0 stands for null
broadcast(cl, message, exclude) ==
  [via |-> "broadcast", msg |-> message,
   rcpt |-> {c \in Conn : Registered(cl, c) /\ c # exclude /\ Open(c)}]

sendTo(c, message) ==
  [via |-> "sendTo", msg |-> message, rcpt |-> IF Open(c) THEN {c} ELSE {}]

\* mutants of sendToUser: sent to the whole room / sent without looking at readyState
sendToUser_WholeRoom(cl, userId, message) ==
  [via |-> "sendToUser", msg |-> message,
   rcpt |-> {c \in Conn : Registered(cl, c) /\ Open(c)}]

sendToUser_AnyReadyState(cl, userId, message) ==
  [via |-> "sendToUser", msg |-> message,
   rcpt |-> {c \in Conn : Registered(cl, c) /\ cl[c].userId = userId}]

sendToUser(cl, userId, message) ==
  [via |-> "sendToUser", msg |-> message,
   rcpt |-> {c \in Conn : Registered(cl, c) /\ cl[c].userId = userId /\ Open(c)}]

\* mutant of broadcastPresence: the virtual AI entry is always added
broadcastPresence_AlwaysVirtual(cl) ==
  LET regs == {c \in Conn : Registered(cl, c)}
  IN broadcast(cl, [type |-> "presence",
                    users |-> [c \in regs |-> cl[c].userId],
                    virtualAI |-> TRUE], 0)

\* broadcastPresence(): one entry per client, and a virtual AI entry when no client has the AI id
broadcastPresence(cl) ==
  LET regs == {c \in Conn : Registered(cl, c)}
  IN broadcast(cl, [type |-> "presence",
                    users |-> [c \in regs |-> cl[c].userId],
                    virtualAI |-> ~ \E c \in regs : cl[c].userId = AI_USER_ID], 0)

\* ----------------------------------------------------------- pure helpers
\* mutant of HistoryPush: the shift is missing
HistoryPush_NoShift(h, m) == Append(h, m)

HistoryPush(h, m) ==
  LET h2 == Append(h, m)
  IN IF Len(h2) > MAX_HISTORY THEN Tail(h2) ELSE h2

\* mutant of LastN: the n oldest elements
LastN_Oldest(s, n) == IF Len(s) <= n THEN s ELSE SubSeq(s, 1, n)
LastN(s, n) == IF Len(s) <= n THEN s ELSE SubSeq(s, Len(s) - n + 1, Len(s))

Has(seq, x) == \E i \in 1..Len(seq) : seq[i] = x
Without(seq, x) == SelectSeq(seq, LAMBDA y : y # x)

ChatLine(userId, text) == userId \o <<":", " ">> \o text

\* mutant of recordMeetingChat: recording a line also takes the speaker out of the meeting
recordMeetingChat_Leaves(mo, am, userId, text) ==
  [id \in IdPool |->
     IF Has(am, id) /\ Has(mo[id].participants, userId)
       THEN [mo[id] EXCEPT !.transcript = Append(@, ChatLine(userId, text)),
                           !.participants = Without(@, userId)]
       ELSE mo[id]]

\* recordMeetingChat(userId, text) applied to the meeting objects mo
recordMeetingChat(mo, am, userId, text) ==
  [id \in IdPool |->
     IF Has(am, id) /\ Has(mo[id].participants, userId)
       THEN [mo[id] EXCEPT !.transcript = Append(@, ChatLine(userId, text))]
       ELSE mo[id]]

\* mutant of leaveAllMeetings: the disconnected line goes into every active meeting
leaveAllMeetings_EveryMeeting(mo, am, userId) ==
  [id \in IdPool |->
     IF Has(am, id)
       THEN [mo[id] EXCEPT !.participants = Without(@, userId),
                           !.transcript = Append(@, <<"[">> \o userId \o <<" disconnected]">>)]
       ELSE mo[id]]

\* leaveAllMeetings(userId)
leaveAllMeetings(mo, am, userId) ==
  [id \in IdPool |->
     IF Has(am, id) /\ Has(mo[id].participants, userId)
       THEN [mo[id] EXCEPT !.participants = Without(@, userId),
                           !.transcript = Append(@, <<"[">> \o userId \o <<" disconnected]">>)]
       ELSE mo[id]]

getActiveMeetingsSummary ==
  [i \in 1..Len(activeMeetings) |->
     LET m == meetingObj[activeMeetings[i]]
     IN [id |-> m.id, lat |-> m.lat, lng |-> m.lng, locationName |-> m.locationName,
         startedBy |-> m.startedBy, startedAt |-> m.startedAt, participants |-> m.participants]]

TaskCount == BagCardinality(tasks)
\* mutant of AddTask: a handler suspended on a call identical to one already pending shares it
AddTask_Coalesce(t) == IF BagIn(t, tasks) THEN tasks ELSE tasks (+) SetToBag({t})
AddTask(t) == tasks (+) SetToBag({t})
DropTask(t) == tasks (-) SetToBag({t})
SwapTask(t, t2) == (tasks (-) SetToBag({t})) (+) SetToBag({t2})
Pending(kind) == {t \in BagToSet(tasks) : t.kind = kind}

\* ------------------------------------------------------- meeting objects
ErrorText(text) == [type |-> "error", text |-> text]

\* `!msg.lat || !msg.lng`
CoordsMissing(lat, lng) == Falsy(lat) \/ Falsy(lng)

\* msg.locationName || `${lat.toFixed(d)}, ${lng.toFixed(d)}`
LocLabel(lat, lng, name, d) ==
  IF name # <<>> THEN name ELSE ToFixed(lat.v, d) \o <<",", " ">> \o ToFixed(lng.v, d)

Preamble(userId, lat, lng, name, now) ==
  << <<"MEETING TRANSCRIPT">>,
     <<"==================">>,
     <<"Location: ">> \o LocLabel(lat, lng, name, 5),
     <<"Date: ">> \o DateStr(now),
     <<"Time: ">> \o TimeStr(now),
     <<"Started by: ">> \o userId,
     <<>>,
     <<"--- Meeting Started ---">>,
     <<>> >>

\* the meeting object startMeeting builds
NewMeeting(meetingId, userId, lat, lng, name, now) ==
  [id |-> meetingId, lat |-> lat, lng |-> lng,
   locationName |-> LocLabel(lat, lng, name, 4),
   startedBy |-> userId, startedAt |-> now,
   participants |-> <<userId>>,
   transcript |-> Preamble(userId, lat, lng, name, now)]

\* the connections of S in the order of their numbers
RECURSIVE InOrder(_)
InOrder(S) ==
  IF S = {} THEN <<>>
  ELSE LET c == CHOOSE x \in S : \A y \in S : x <= y IN <<c>> \o InOrder(S \ {c})

\* ------------------------------------------------------------------ Init
\* the service configured with a context window of k records, with the sessions cl
\* registered, the chat history hist, the meetings am active, the notes ns in memory and
\* on disk, and budget events still to come
Service(k, cl, hist, id0, am, mo, ns, budget) ==
  /\ CONTEXT_MESSAGES = k
  /\ clients = cl
  /\ transport = [c \in Conn |-> "OPEN"]
  /\ chatHistory = hist
  /\ notes = ns
  /\ notesFile = ns
  /\ activeMeetings = am
  /\ meetingObj = mo
  /\ files = [f \in {FileName(n) : n \in Minute} |-> NoFile]
  /\ tasks = EmptyBag
  /\ nextId = id0
  /\ ops = budget
  /\ sent = <<>>
  /\ produced = [id \in IdPool |-> NoProduced]
  /\ chatDue = {}
  /\ stateFile = [key \in StateKey |-> NoValue]
  /\ location = [c \in Conn |-> Null]
  /\ order = InOrder({c \in Conn : cl[c].reg})
  /\ greeted = {c \in Conn : cl[c].reg}
  /\ stateDue = {}

\* the service under the default configuration
Room(cl, hist, id0, am, mo, ns, budget) ==
  Service(DEFAULT_CONTEXT_MESSAGES, cl, hist, id0, am, mo, ns, budget)

\* the state after start(): nobody connected yet
NoMeetings == [id \in IdPool |-> NoMeeting]
Init == Room([c \in Conn |-> NoClient], <<>>, 1, <<>>, NoMeetings, <<>>, MaxOpsFull)

\* the state after every connection has sent auth and handleAuth has completed:
\* odd connections as ALICE, even ones as BOB
Seated == [c \in Conn |-> [reg |-> TRUE, userId |-> IF c % 2 = 1 THEN ALICE ELSE BOB]]
\* ... with no meeting yet, or with the one meeting that ALICE's start request at
\* (52, 52) has created
InitSeated ==
  \/ Room(Seated, <<>>, 1, <<>>, NoMeetings, <<>>, MaxOps)
  \/ \E meetingId \in IdPool :
       Room(Seated, <<>>, 1, <<meetingId>>,
            [NoMeetings EXCEPT ![meetingId] =
               NewMeeting(meetingId, ALICE, Num(52), Num(52), <<>>, 0)],
            <<>>, MaxOps)

\* a message arrives on connection c
Arrives(c) == Open(c) /\ ops > 0


\* ================================================================== AUTH
\* handleAuth up to `await loadState()`
AuthStart(c, u) ==
  /\ Arrives(c)
  /\ TaskCount < MaxTasks
  /\ ops' = ops - 1
  /\ clients' = [clients EXCEPT ![c] = [reg |-> TRUE, userId |-> u]]
  /\ tasks' = AddTask([kind |-> "auth", conn |-> c, userId |-> u])
  /\ sent' = <<>>
  /\ location' = [location EXCEPT ![c] = Null]
  /\ order' = IF clients[c].reg THEN order ELSE Append(order, c)
  /\ UNCHANGED <<stateDue, stateFile, greeted>>
  /\ UNCHANGED <<CONTEXT_MESSAGES, transport, chatHistory, notes, notesFile, activeMeetings, meetingObj,
                 files, nextId, produced, chatDue>>

\* mutant of AuthResume: the session is entered in the registry after loadState() returned
AuthResume_Registers(t) ==
  /\ t \in Pending("auth")
  /\ tasks' = DropTask(t)
  /\ clients' = [clients EXCEPT ![t.conn] = [reg |-> TRUE, userId |-> t.userId]]
  /\ sent' = << sendTo(t.conn, [type |-> "state"]),
                sendTo(t.conn, [type |-> "history",
                                messages |-> LastN(chatHistory, HISTORY_SNAPSHOT)]),
                sendTo(t.conn, [type |-> "notes", notes |-> notes]),
                sendTo(t.conn, [type |-> "meetings", meetings |-> getActiveMeetingsSummary]),
                broadcast(clients', [type |-> "join", userId |-> t.userId], t.conn),
                broadcastPresence(clients') >>
  /\ greeted' = IF Open(t.conn) THEN greeted \cup {t.conn} ELSE greeted
  /\ UNCHANGED <<stateDue, stateFile, location, order>>
  /\ UNCHANGED <<CONTEXT_MESSAGES, transport, chatHistory, notes, notesFile, activeMeetings,
                 meetingObj, files, nextId, ops, produced, chatDue>>

\* handleAuth after loadState() returned (loadState catches its own errors)
AuthResume(t) ==
  /\ t \in Pending("auth")
  /\ tasks' = DropTask(t)
  /\ sent' = << sendTo(t.conn, [type |-> "state"]),
                sendTo(t.conn, [type |-> "history",
                                messages |-> LastN(chatHistory, HISTORY_SNAPSHOT)]),
                sendTo(t.conn, [type |-> "notes", notes |-> notes]),
                sendTo(t.conn, [type |-> "meetings", meetings |-> getActiveMeetingsSummary]),
                broadcast(clients, [type |-> "join", userId |-> t.userId], t.conn),
                broadcastPresence(clients) >>
  /\ greeted' = IF Open(t.conn) THEN greeted \cup {t.conn} ELSE greeted
  /\ UNCHANGED <<stateDue, stateFile, location, order>>
  /\ UNCHANGED <<CONTEXT_MESSAGES, clients, transport, chatHistory, notes, notesFile, activeMeetings,
                 meetingObj, files, nextId, ops, produced, chatDue>>

\* ================================================================= CLOSE
\* the transport stops being OPEN before its 'close' event is delivered
TransportClosing(c) ==
  /\ transport[c] = "OPEN"
  /\ ops > 0
  /\ ops' = ops - 1
  /\ transport' = [transport EXCEPT ![c] = "CLOSING"]
  /\ sent' = <<>>
  /\ UNCHANGED <<stateDue, stateFile, location, greeted, order>>
  /\ UNCHANGED <<CONTEXT_MESSAGES, clients, chatHistory, notes, notesFile, activeMeetings, meetingObj,
                 files, tasks, nextId, produced, chatDue>>

\* mutant of CloseEvent: the close also abandons the AI requests of the leaving user
CloseEvent_Aborts(c) ==
  /\ transport[c] # "CLOSED"
  /\ ops > 0
  /\ ops' = ops - 1
  /\ transport' = [transport EXCEPT ![c] = "CLOSED"]
  /\ IF clients[c].reg
       THEN /\ meetingObj' = leaveAllMeetings(meetingObj, activeMeetings, clients[c].userId)
            /\ clients' = [clients EXCEPT ![c] = NoClient]
            /\ sent' = << broadcastPresence(clients') >>
            /\ tasks' = [t \in {x \in BagToSet(tasks) :
                                  ~ (x.kind = "ai" /\ x.fromUser = clients[c].userId)}
                           |-> tasks[t]]
       ELSE /\ UNCHANGED <<meetingObj, clients, tasks>>
            /\ sent' = <<>>
  /\ location' = [location EXCEPT ![c] = Null]
  /\ order' = SelectSeq(order, LAMBDA x : x # c)
  /\ UNCHANGED <<stateDue, stateFile, greeted>>
  /\ UNCHANGED <<CONTEXT_MESSAGES, chatHistory, notes, notesFile, activeMeetings, files, nextId,
                 produced, chatDue>>

\* ws.on('close')
CloseEvent(c) ==
  /\ transport[c] # "CLOSED"
  /\ ops > 0
  /\ ops' = ops - 1
  /\ transport' = [transport EXCEPT ![c] = "CLOSED"]
  /\ IF clients[c].reg
       THEN /\ meetingObj' = leaveAllMeetings(meetingObj, activeMeetings, clients[c].userId)
            /\ clients' = [clients EXCEPT ![c] = NoClient]
            /\ sent' = << broadcastPresence(clients') >>
       ELSE /\ UNCHANGED <<meetingObj, clients>>
            /\ sent' = <<>>
  /\ location' = [location EXCEPT ![c] = Null]
  /\ order' = SelectSeq(order, LAMBDA x : x # c)
  /\ UNCHANGED <<stateDue, stateFile, greeted>>
  /\ UNCHANGED <<CONTEXT_MESSAGES, chatHistory, notes, notesFile, activeMeetings, files, tasks, nextId,
                 produced, chatDue>>

\* ================================================================== CHAT
\* the meetings userId is a participant of
MeetingsOf(userId) ==
  {id \in IdPool : Has(activeMeetings, id) /\ Has(meetingObj[id].participants, userId)}

\* handleChat up to `await logChat(chatMsg)`
ChatStart(c, text) ==
  /\ Arrives(c)
  /\ ops' = ops - 1
  /\ sent' = <<>>
  /\ IF ~ clients[c].reg
       THEN UNCHANGED <<chatHistory, tasks, nextId, chatDue>>
       ELSE LET chatMsg == [type |-> "chat", id |-> nextId, from |-> clients[c].userId,
                            text |-> text]
            IN /\ TaskCount < MaxTasks
               /\ nextId' = nextId + 1
               /\ chatHistory' = HistoryPush(chatHistory, chatMsg)
               /\ tasks' = AddTask([kind |-> "chat", conn |-> c, msg |-> chatMsg])
               /\ chatDue' = chatDue \cup
                    {[chat |-> nextId, meeting |-> id] : id \in MeetingsOf(clients[c].userId)}
  /\ UNCHANGED <<stateDue, stateFile, location, greeted, order>>
  /\ UNCHANGED <<CONTEXT_MESSAGES, clients, transport, notes, notesFile, activeMeetings, meetingObj, files,
                 produced>>

\* Array.prototype.slice(start): a negative start counts from the end, and -0 is 0
Slice(s, start) ==
  LET from == IF start < 0
                THEN (IF Len(s) + start > 0 THEN Len(s) + start ELSE 0)
                ELSE (IF start < Len(s) THEN start ELSE Len(s))
  IN SubSeq(s, from + 1, Len(s))

\* the turn buildContext makes of a history record
Turn(msg) ==
  IF msg.from = AI_USER_ID
    THEN [role |-> "assistant", content |-> msg.text]
    ELSE [role |-> "user", content |-> ChatLine(msg.from, msg.text)]

\* the system prompt; no session has a location in this model, so no nearby notes follow it
Preface(fromUser) ==
  <<"You are ">> \o AI_USER_ID \o <<", ... The person addressing you is \"">> \o fromUser
    \o <<"\".">>

\* haversineDistance in metres between points of the grid the places and notes of this
\* model lie on (latitudes and longitudes 0 and 52): 0 for one point, 111195 m per degree
\* along a meridian, and more than 3000 km between points that differ in longitude
Abs(n) == IF n < 0 THEN 0 - n ELSE n
haversineDistance(lat1, lon1, lat2, lon2) ==
  IF lon1 = lon2 THEN 111195 * Abs(lat2 - lat1) ELSE 3000000

\* getNotesNear(lat, lng, radiusMetres); a note without numeric coordinates gives NaN,
\* which is not <= the radius
getNotesNear(lat, lng, radiusMetres) ==
  SelectSeq(notes, LAMBDA n :
    /\ n.lat.t = "number" /\ n.lng.t = "number" /\ lat.t = "number" /\ lng.t = "number"
    /\ haversineDistance(lat.v, lng.v, n.lat.v, n.lng.v) <= radiusMetres)

\* the text buildContext appends for the notes ns
RECURSIVE NoteLines(_)
NoteLines(ns) ==
  IF ns = <<>> THEN <<>>
  ELSE <<"- \"">> \o ns[1].text \o <<"\" (by ">> \o ns[1].author \o <<" at ">>
         \o (IF ns[1].locationName = Null THEN <<"unnamed location">>
                                          ELSE ns[1].locationName)
         \o <<")\n">> \o NoteLines(Tail(ns))
NotesBlock(ns) ==
  <<"\n\nNotes left at or near the user's current location:\n">> \o NoteLines(ns)

\* [...clients.values()].find(c => c.userId === fromUser): the first session, in insertion
\* order, with that user id (0 when there is none)
FindClient(fromUser) ==
  LET hits == SelectSeq(order, LAMBDA c : clients[c].userId = fromUser)
  IN IF hits = <<>> THEN 0 ELSE hits[1]

\* the system prompt, with the notes near the location of the session found for fromUser
SystemContent(fromUser) ==
  LET userClient == FindClient(fromUser)
  IN IF userClient # 0 /\ location[userClient] # Null /\ notes # <<>>
       THEN LET nearbyNotes == getNotesNear(location[userClient].lat,
                                            location[userClient].lng, 500)
            IN IF nearbyNotes # <<>> THEN Preface(fromUser) \o NotesBlock(nearbyNotes)
                                     ELSE Preface(fromUser)
       ELSE Preface(fromUser)

\* buildContext(currentText, fromUser) over the chat history hist with CONTEXT_MESSAGES = k
buildContext(hist, k, currentText, fromUser) ==
  LET recent == Slice(hist, 0 - k)
      messages == << [role |-> "system", content |-> SystemContent(fromUser)] >>
                    \o [i \in 1..Len(recent) |-> Turn(recent[i])]
      lastMsg == messages[Len(messages)]
      currentContent == ChatLine(fromUser, currentText)
  IN IF lastMsg.content # currentContent
       THEN Append(messages, [role |-> "user", content |-> currentContent])
       ELSE messages

\* processAIRequest up to `await callOpenClaw(...)`: the typing broadcast and the suspended
\* call with the messages it posts
AITyping == broadcast(clients, [type |-> "typing", userId |-> AI_USER_ID], 0)
AITask(fromUser, text, replyToId) ==
  [kind |-> "ai", fromUser |-> fromUser, text |-> text, replyTo |-> replyToId,
   messages |-> buildContext(chatHistory, CONTEXT_MESSAGES, text, fromUser)]

\* handleChat after logChat resolved, up to the await inside processAIRequest
ChatLogged(t) ==
  /\ t \in Pending("chat")
  /\ meetingObj' = recordMeetingChat(meetingObj, activeMeetings, t.msg.from, t.msg.text)
  /\ chatDue' = {d \in chatDue : ~ (d.chat = t.msg.id /\ d.meeting \in MeetingsOf(t.msg.from))}
  /\ IF isMentioned(t.msg.text)
       THEN /\ sent' = << broadcast(clients, t.msg, 0), AITyping >>
            /\ tasks' = SwapTask(t, AITask(t.msg.from, t.msg.text, t.msg.id))
       ELSE /\ sent' = << broadcast(clients, t.msg, 0) >>
            /\ tasks' = DropTask(t)
  /\ UNCHANGED <<stateDue, stateFile, location, greeted, order>>
  /\ UNCHANGED <<CONTEXT_MESSAGES, clients, transport, chatHistory, notes, notesFile, activeMeetings, files,
                 nextId, ops, produced>>

\* logChat rejected: handleChat throws, the 'message' callback catches and reports to the sender
ChatLogFail(t) ==
  /\ t \in Pending("chat")
  /\ tasks' = DropTask(t)
  /\ chatDue' = {d \in chatDue : d.chat # t.msg.id}
  /\ sent' = << sendTo(t.conn, [type |-> "error", error |-> <<"EIO">>]) >>
  /\ UNCHANGED <<stateDue, stateFile, location, greeted, order>>
  /\ UNCHANGED <<CONTEXT_MESSAGES, clients, transport, chatHistory, notes, notesFile, activeMeetings,
                 meetingObj, files, nextId, ops, produced>>

\* ================================================================ INVOKE
\* handleInvoke up to the await inside processAIRequest
InvokeStart(c, command, id) ==
  /\ Arrives(c)
  /\ ops' = ops - 1
  /\ IF ~ clients[c].reg
       THEN /\ sent' = <<>>
            /\ UNCHANGED tasks
       ELSE /\ TaskCount < MaxTasks
            /\ sent' = << AITyping >>
            /\ tasks' = AddTask(AITask(clients[c].userId, command, id))
  /\ UNCHANGED <<stateDue, stateFile, location, greeted, order>>
  /\ UNCHANGED <<CONTEXT_MESSAGES, clients, transport, chatHistory, notes, notesFile, activeMeetings,
                 meetingObj, files, nextId, produced, chatDue>>

\* callOpenClaw's return value for a 2xx reply
callOpenClaw(r) == IF r.content = <<>> THEN <<"No response">> ELSE r.content

\* mutant of AIFailure: the failure is reported to the sessions of the invoking user only
AIFailure_ToInvoker(fromUser, err) ==
  sendToUser(clients, fromUser,
             [type |-> "error", text |-> <<"Failed to get AI response: ">> \o err])

\* the catch block of processAIRequest
AIFailure(fromUser, err) ==
  broadcast(clients, [type |-> "error", text |-> <<"Failed to get AI response: ">> \o err], 0)

\* processAIRequest after callOpenClaw settled
AIReturn(t, r) ==
  /\ t \in Pending("ai")
  /\ IF r.ok
       THEN LET response == callOpenClaw(r)
                responseMsg == [type |-> "ai_response", id |-> nextId, from |-> AI_USER_ID,
                                text |-> response, inReplyTo |-> t.replyTo]
            IN /\ chatHistory' = HistoryPush(chatHistory, responseMsg)
               /\ nextId' = nextId + 1
               /\ meetingObj' = recordMeetingChat(meetingObj, activeMeetings, AI_USER_ID,
                                                  response)
               /\ sent' = << broadcast(clients, responseMsg, 0) >>
               /\ tasks' = IF LOG_CHAT THEN SwapTask(t, [kind |-> "ailog", msg |-> responseMsg])
                                       ELSE DropTask(t)
       ELSE /\ sent' = << AIFailure(t.fromUser, r.content) >>
            /\ tasks' = DropTask(t)
            /\ UNCHANGED <<chatHistory, nextId, meetingObj>>
  /\ UNCHANGED <<stateDue, stateFile, location, greeted, order>>
  /\ UNCHANGED <<CONTEXT_MESSAGES, clients, transport, notes, notesFile, activeMeetings, files, ops, produced,
                 chatDue>>

\* logChat(responseMsg) resolved
AILogDone(t) ==
  /\ t \in Pending("ailog")
  /\ tasks' = DropTask(t)
  /\ sent' = <<>>
  /\ UNCHANGED <<stateDue, stateFile, location, greeted, order>>
  /\ UNCHANGED <<CONTEXT_MESSAGES, clients, transport, chatHistory, notes, notesFile, activeMeetings,
                 meetingObj, files, nextId, ops, produced, chatDue>>

\* logChat(responseMsg) rejected inside processAIRequest's try block
AILogFail(t) ==
  /\ t \in Pending("ailog")
  /\ tasks' = DropTask(t)
  /\ sent' = << broadcast(clients,
                  [type |-> "error", text |-> <<"Failed to get AI response: ", "EIO">>], 0) >>
  /\ UNCHANGED <<stateDue, stateFile, location, greeted, order>>
  /\ UNCHANGED <<CONTEXT_MESSAGES, clients, transport, chatHistory, notes, notesFile, activeMeetings,
                 meetingObj, files, nextId, ops, produced, chatDue>>

\* ================================================================= NOTES
\* mutant of NewNote: the note carries no author
NewNote_Anonymous(noteId, userId, lat, lng, name, text) ==
  [id |-> noteId, lat |-> lat, lng |-> lng,
   locationName |-> IF name = <<>> THEN Null ELSE name,
   text |-> text, author |-> <<>>]

\* the note object handleNote builds for an add request
NewNote(noteId, userId, lat, lng, name, text) ==
  [id |-> noteId, lat |-> lat, lng |-> lng,
   locationName |-> IF name = <<>> THEN Null ELSE name,
   text |-> text, author |-> userId]

\* handleNote, action 'add', up to `await saveNotes()`; JSON.stringify(notes) is evaluated
\* before the write is issued, so the write carries the list as it is now
NoteAddStart(c, lat, lng, name, text) ==
  /\ Arrives(c)
  /\ ops' = ops - 1
  /\ sent' = <<>>
  /\ IF ~ clients[c].reg
       THEN UNCHANGED <<notes, nextId, tasks>>
       ELSE LET note == NewNote(nextId, clients[c].userId, lat, lng, name, text)
            IN /\ TaskCount < MaxTasks
               /\ notes' = Append(notes, note)
               /\ nextId' = nextId + 1
               /\ tasks' = AddTask([kind |-> "noteAdd", conn |-> c, note |-> note,
                                    snapshot |-> notes'])
  /\ UNCHANGED <<stateDue, stateFile, location, greeted, order>>
  /\ UNCHANGED <<CONTEXT_MESSAGES, clients, transport, chatHistory, notesFile, activeMeetings, meetingObj,
                 files, produced, chatDue>>

\* handleNote 'add' after saveNotes resolved
NoteAddSaved(t) ==
  /\ t \in Pending("noteAdd")
  /\ notesFile' = t.snapshot
  /\ tasks' = DropTask(t)
  /\ sent' = << broadcast(clients, [type |-> "note_added", note |-> t.note], 0) >>
  /\ UNCHANGED <<stateDue, stateFile, location, greeted, order>>
  /\ UNCHANGED <<CONTEXT_MESSAGES, clients, transport, chatHistory, notes, activeMeetings, meetingObj, files,
                 nextId, ops, produced, chatDue>>

\* saveNotes rejected: handleNote throws, the 'message' callback reports to the sender
NoteAddSaveFail(t) ==
  /\ t \in Pending("noteAdd")
  /\ tasks' = DropTask(t)
  /\ sent' = << sendTo(t.conn, [type |-> "error", error |-> <<"EIO">>]) >>
  /\ UNCHANGED <<stateDue, stateFile, location, greeted, order>>
  /\ UNCHANGED <<CONTEXT_MESSAGES, clients, transport, chatHistory, notes, notesFile, activeMeetings,
                 meetingObj, files, nextId, ops, produced, chatDue>>

\* mutant of NoteIndex: the author is not compared
NoteIndex_AnyAuthor(ns, noteId, userId) ==
  IF \E i \in 1..Len(ns) : ns[i].id = noteId
    THEN CHOOSE i \in 1..Len(ns) :
           /\ ns[i].id = noteId
           /\ \A j \in 1..(i - 1) : ns[j].id # noteId
    ELSE 0

\* notes.findIndex(n => n.id === msg.noteId && n.author === client.userId); 0 stands for -1
NoteIndex(ns, noteId, userId) ==
  IF \E i \in 1..Len(ns) : ns[i].id = noteId /\ ns[i].author = userId
    THEN CHOOSE i \in 1..Len(ns) :
           /\ ns[i].id = noteId /\ ns[i].author = userId
           /\ \A j \in 1..(i - 1) : ~ (ns[j].id = noteId /\ ns[j].author = userId)
    ELSE 0

\* notes.splice(idx, 1)
Splice(ns, idx) == SubSeq(ns, 1, idx - 1) \o SubSeq(ns, idx + 1, Len(ns))

\* handleNote, action 'delete', up to `await saveNotes()`
NoteDeleteStart(c, noteId) ==
  /\ Arrives(c)
  /\ ops' = ops - 1
  /\ sent' = <<>>
  /\ IF ~ clients[c].reg \/ noteId = NoNoteId
       THEN UNCHANGED <<notes, tasks>>
       ELSE LET idx == NoteIndex(notes, noteId, clients[c].userId)
            IN IF idx = 0
                 THEN UNCHANGED <<notes, tasks>>
                 ELSE /\ TaskCount < MaxTasks
                      /\ notes' = Splice(notes, idx)
                      /\ tasks' = AddTask([kind |-> "noteDelete", conn |-> c,
                                           noteId |-> noteId, snapshot |-> notes'])
  /\ UNCHANGED <<stateDue, stateFile, location, greeted, order>>
  /\ UNCHANGED <<CONTEXT_MESSAGES, clients, transport, chatHistory, notesFile, activeMeetings, meetingObj,
                 files, nextId, produced, chatDue>>

\* handleNote 'delete' after saveNotes resolved
NoteDeleteSaved(t) ==
  /\ t \in Pending("noteDelete")
  /\ notesFile' = t.snapshot
  /\ tasks' = DropTask(t)
  /\ sent' = << broadcast(clients, [type |-> "note_deleted", noteId |-> t.noteId], 0) >>
  /\ UNCHANGED <<stateDue, stateFile, location, greeted, order>>
  /\ UNCHANGED <<CONTEXT_MESSAGES, clients, transport, chatHistory, notes, activeMeetings, meetingObj, files,
                 nextId, ops, produced, chatDue>>

\* saveNotes rejected after the splice
NoteDeleteSaveFail(t) ==
  /\ t \in Pending("noteDelete")
  /\ tasks' = DropTask(t)
  /\ sent' = << sendTo(t.conn, [type |-> "error", error |-> <<"EIO">>]) >>
  /\ UNCHANGED <<stateDue, stateFile, location, greeted, order>>
  /\ UNCHANGED <<CONTEXT_MESSAGES, clients, transport, chatHistory, notes, notesFile, activeMeetings,
                 meetingObj, files, nextId, ops, produced, chatDue>>


\* =============================================================== MEETINGS
\* ids generateId() has not handed to a meeting yet
FreshIds == {id \in IdPool : meetingObj[id] = NoMeeting}

\* handleMeeting, action 'start': startMeeting
MeetingStart(c, lat, lng, name, now) ==
  /\ Arrives(c)
  /\ ops' = ops - 1
  /\ IF ~ clients[c].reg
       THEN /\ sent' = <<>>
            /\ UNCHANGED <<activeMeetings, meetingObj>>
       ELSE IF CoordsMissing(lat, lng)
         THEN /\ sent' = << sendToUser(clients, clients[c].userId,
                    ErrorText(<<"Select a location on the map before starting a meeting.">>)) >>
              /\ UNCHANGED <<activeMeetings, meetingObj>>
         ELSE \E meetingId \in FreshIds :
                LET userId == clients[c].userId
                    meeting == NewMeeting(meetingId, userId, lat, lng, name, now)
                IN /\ meetingObj' = [meetingObj EXCEPT ![meetingId] = meeting]
                   /\ activeMeetings' = Append(activeMeetings, meetingId)
                   /\ sent' = << broadcast(clients,
                                   [type |-> "meeting_started",
                                    meeting |-> [id |-> meetingId, lat |-> lat, lng |-> lng,
                                                 locationName |-> meeting.locationName,
                                                 startedBy |-> userId,
                                                 participants |-> <<userId>>]], 0) >>
  /\ UNCHANGED <<stateDue, stateFile, location, greeted, order>>
  /\ UNCHANGED <<CONTEXT_MESSAGES, clients, transport, chatHistory, notes, notesFile, files, tasks, nextId,
                 produced, chatDue>>

\* mutant of Resolve: the prefix scan comes before the exact match
Resolve_PrefixFirst(meetingId) ==
  IF \E i \in 1..Len(activeMeetings) : StartsWith(activeMeetings[i], meetingId)
    THEN activeMeetings[CHOOSE i \in 1..Len(activeMeetings) :
                          /\ StartsWith(activeMeetings[i], meetingId)
                          /\ \A j \in 1..(i - 1) : ~ StartsWith(activeMeetings[j], meetingId)]
    ELSE <<>>

\* activeMeetings.get(meetingId), then the first key that starts with meetingId; <<>> when none
Resolve(meetingId) ==
  IF Has(activeMeetings, meetingId) THEN meetingId
  ELSE IF \E i \in 1..Len(activeMeetings) : StartsWith(activeMeetings[i], meetingId)
    THEN activeMeetings[CHOOSE i \in 1..Len(activeMeetings) :
                          /\ StartsWith(activeMeetings[i], meetingId)
                          /\ \A j \in 1..(i - 1) : ~ StartsWith(activeMeetings[j], meetingId)]
    ELSE <<>>

\* mutant of AlreadyIn: the membership test is missing
AlreadyIn_Never(id, userId) == FALSE

\* `meeting.participants.has(client.userId)` in joinMeeting
AlreadyIn(id, userId) == Has(meetingObj[id].participants, userId)

\* mutant of NotIn: anybody may end a meeting nobody is in
NotIn_UnlessEmpty(id, userId) ==
  meetingObj[id].participants # <<>> /\ ~ Has(meetingObj[id].participants, userId)

\* `!meeting.participants.has(client.userId)` in endMeeting
NotIn(id, userId) == ~ Has(meetingObj[id].participants, userId)

\* mutant of JoinLines: the blank line after the join line is missing
JoinLines_NoBlank(userId) == << <<"[">> \o userId \o <<" joined the meeting]">> >>

\* the two transcript pushes of joinMeeting
JoinLines(userId) == << <<"[">> \o userId \o <<" joined the meeting]">>, <<>> >>

\* handleMeeting, action 'join': joinMeeting
MeetingJoin(c, meetingId) ==
  /\ Arrives(c)
  /\ ops' = ops - 1
  /\ IF ~ clients[c].reg
       THEN /\ sent' = <<>>
            /\ UNCHANGED meetingObj
       ELSE LET userId == clients[c].userId
                id == Resolve(meetingId)
            IN IF id = <<>>
                 THEN /\ sent' = << sendToUser(clients, userId,
                                                ErrorText(<<"Meeting not found.">>)) >>
                      /\ UNCHANGED meetingObj
               ELSE IF AlreadyIn(id, userId)
                 THEN /\ sent' = << sendToUser(clients, userId,
                                      ErrorText(<<"You are already in this meeting.">>)) >>
                      /\ UNCHANGED meetingObj
               ELSE /\ meetingObj' = [meetingObj EXCEPT
                         ![id].participants = Append(@, userId),
                         ![id].transcript = @ \o JoinLines(userId)]
                    /\ sent' = << broadcast(clients,
                                    [type |-> "meeting_joined", meetingId |-> id,
                                     userId |-> userId,
                                     participants |-> meetingObj'[id].participants], 0) >>
  /\ UNCHANGED <<stateDue, stateFile, location, greeted, order>>
  /\ UNCHANGED <<CONTEXT_MESSAGES, clients, transport, chatHistory, notes, notesFile, activeMeetings, files,
                 tasks, nextId, produced, chatDue>>

Footer(id, now) ==
  << <<>>,
     <<"--- Meeting Ended at ">> \o TimeStr(now) \o <<" ---">>,
     <<"Participants: ">> \o Join(meetingObj[id].participants, <<",", " ">>) >>

\* handleMeeting, action 'end': endMeeting up to the awaits of mkdir / writeFile.
\* mkdir's resumption changes nothing and goes straight into writeFile, so the two
\* awaits are one suspension here.
MeetingEndStart(c, meetingId, now) ==
  /\ Arrives(c)
  /\ ops' = ops - 1
  /\ IF ~ clients[c].reg
       THEN /\ sent' = <<>>
            /\ UNCHANGED <<meetingObj, tasks>>
       ELSE LET userId == clients[c].userId
                id == Resolve(meetingId)
            IN IF id = <<>>
                 THEN /\ sent' = << sendToUser(clients, userId,
                                                ErrorText(<<"Meeting not found.">>)) >>
                      /\ UNCHANGED <<meetingObj, tasks>>
               ELSE IF NotIn(id, userId)
                 THEN /\ sent' = << sendToUser(clients, userId,
                                      ErrorText(<<"You are not in this meeting.">>)) >>
                      /\ UNCHANGED <<meetingObj, tasks>>
               ELSE /\ TaskCount < MaxTasks
                    /\ meetingObj' = [meetingObj EXCEPT ![id].transcript = @ \o Footer(id, now)]
                    /\ tasks' = AddTask([kind |-> "end", pc |-> "writeFile", conn |-> c,
                                         userId |-> userId, meetingId |-> id,
                                         fileName |-> FileName(now),
                                         transcriptText |->
                                           Join(meetingObj'[id].transcript, <<"\n">>)])
                    /\ sent' = <<>>
  /\ UNCHANGED <<stateDue, stateFile, location, greeted, order>>
  /\ UNCHANGED <<CONTEXT_MESSAGES, clients, transport, chatHistory, notes, notesFile, activeMeetings, files,
                 nextId, produced, chatDue>>

\* endMeeting after writeFile resolved, up to `await saveNotes()`
MeetingEndWritten(t) ==
  /\ t \in Pending("end")
  /\ t.pc = "writeFile"
  /\ LET meeting == meetingObj[t.meetingId]
         note == [id |-> nextId, lat |-> meeting.lat, lng |-> meeting.lng,
                  locationName |-> meeting.locationName,
                  text |-> <<"Meeting transcript: ">> \o t.fileName \o <<" (">>
                             \o Join(meeting.participants, <<",", " ">>) \o <<")">>,
                  author |-> SYSTEM, meetingFile |-> t.fileName]
     IN /\ files' = [files EXCEPT ![t.fileName] = t.transcriptText]
        /\ notes' = Append(notes, note)
        /\ nextId' = nextId + 1
        /\ tasks' = SwapTask(t, [kind |-> "end", pc |-> "saveNotes", conn |-> t.conn,
                                 userId |-> t.userId, meetingId |-> t.meetingId,
                                 fileName |-> t.fileName, note |-> note,
                                 snapshot |-> notes'])
        /\ produced' = [produced EXCEPT ![t.meetingId].files = @ + 1,
                                        ![t.meetingId].notes = @ + 1]
  /\ sent' = <<>>
  /\ UNCHANGED <<stateDue, stateFile, location, greeted, order>>
  /\ UNCHANGED <<CONTEXT_MESSAGES, clients, transport, chatHistory, notesFile, activeMeetings, meetingObj, ops,
                 chatDue>>

\* mkdir or writeFile rejected: endMeeting throws, the 'message' callback reports to the sender
MeetingEndWriteFail(t) ==
  /\ t \in Pending("end")
  /\ t.pc = "writeFile"
  /\ tasks' = DropTask(t)
  /\ sent' = << sendTo(t.conn, [type |-> "error", error |-> <<"EIO">>]) >>
  /\ UNCHANGED <<stateDue, stateFile, location, greeted, order>>
  /\ UNCHANGED <<CONTEXT_MESSAGES, clients, transport, chatHistory, notes, notesFile, activeMeetings,
                 meetingObj, files, nextId, ops, produced, chatDue>>

\* endMeeting after saveNotes resolved
MeetingEndSaved(t) ==
  /\ t \in Pending("end")
  /\ t.pc = "saveNotes"
  /\ notesFile' = t.snapshot
  /\ activeMeetings' = Without(activeMeetings, t.meetingId)
  /\ tasks' = DropTask(t)
  /\ sent' = << broadcast(clients,
                  [type |-> "meeting_ended", meetingId |-> t.meetingId,
                   fileName |-> t.fileName,
                   locationName |-> meetingObj[t.meetingId].locationName,
                   endedBy |-> t.userId, note |-> t.note], 0) >>
  /\ produced' = [produced EXCEPT ![t.meetingId].ended = @ + 1]
  /\ UNCHANGED <<stateDue, stateFile, location, greeted, order>>
  /\ UNCHANGED <<CONTEXT_MESSAGES, clients, transport, chatHistory, notes, meetingObj, files, nextId, ops,
                 chatDue>>

\* saveNotes rejected: endMeeting throws after the note was pushed
MeetingEndSaveFail(t) ==
  /\ t \in Pending("end")
  /\ t.pc = "saveNotes"
  /\ tasks' = DropTask(t)
  /\ sent' = << sendTo(t.conn, [type |-> "error", error |-> <<"EIO">>]) >>
  /\ UNCHANGED <<stateDue, stateFile, location, greeted, order>>
  /\ UNCHANGED <<CONTEXT_MESSAGES, clients, transport, chatHistory, notes, notesFile, activeMeetings,
                 meetingObj, files, nextId, ops, produced, chatDue>>

\* ================================================================== MOVE
\* handleMove
Move(c, place) ==
  /\ Arrives(c)
  /\ ops' = ops - 1
  /\ IF ~ clients[c].reg
       THEN /\ sent' = <<>>
            /\ UNCHANGED location
       ELSE /\ location' = [location EXCEPT ![c] = place]
            /\ sent' = << broadcast(clients, [type |-> "move", userId |-> clients[c].userId,
                                              location |-> place], c),
                          broadcastPresence(clients) >>
  /\ UNCHANGED <<stateDue, stateFile, greeted, order>>
  /\ UNCHANGED <<CONTEXT_MESSAGES, clients, transport, chatHistory, notes, notesFile,
                 activeMeetings, meetingObj, files, tasks, nextId, produced, chatDue>>

\* ========================================================= STATE UPDATE
\* Object.assign(state, update)
Assign(state, update) ==
  [key \in StateKey |-> IF update[key] # NoValue THEN update[key] ELSE state[key]]

\* handleStateUpdate up to `await loadState()`; no session is looked up
StateUpdateStart(c, update) ==
  /\ Arrives(c)
  /\ TaskCount < MaxTasks
  /\ ops' = ops - 1
  /\ tasks' = AddTask([kind |-> "stateload", conn |-> c, update |-> update])
  /\ sent' = <<>>
  /\ UNCHANGED <<stateDue, stateFile, location, greeted, order>>
  /\ UNCHANGED <<CONTEXT_MESSAGES, clients, transport, chatHistory, notes, notesFile,
                 activeMeetings, meetingObj, files, nextId, produced, chatDue>>

\* loadState() returned what state.json holds; the update is merged into that copy and
\* handleStateUpdate is suspended again in `await saveState(state)`
StateLoaded(t) ==
  /\ t \in Pending("stateload")
  /\ tasks' = SwapTask(t, [kind |-> "statesave", conn |-> t.conn, update |-> t.update,
                           state |-> Assign(stateFile, t.update)])
  /\ sent' = <<>>
  /\ UNCHANGED <<stateDue, stateFile, location, greeted, order>>
  /\ UNCHANGED <<CONTEXT_MESSAGES, clients, transport, chatHistory, notes, notesFile,
                 activeMeetings, meetingObj, files, nextId, ops, produced, chatDue>>

\* saveState(state) resolved: state.json holds the handler's copy, the update is broadcast
StateSaved(t) ==
  /\ t \in Pending("statesave")
  /\ tasks' = DropTask(t)
  /\ stateFile' = t.state
  /\ stateDue' = stateDue \cup {key \in StateKey : t.update[key] # NoValue}
  /\ sent' = << broadcast(clients, [type |-> "state_update", update |-> t.update], t.conn) >>
  /\ UNCHANGED <<location, greeted, order>>
  /\ UNCHANGED <<CONTEXT_MESSAGES, clients, transport, chatHistory, notes, notesFile,
                 activeMeetings, meetingObj, files, nextId, ops, produced, chatDue>>

\* saveState(state) rejected: the 'message' callback catches and reports to the sender
StateSaveFail(t) ==
  /\ t \in Pending("statesave")
  /\ tasks' = DropTask(t)
  /\ sent' = << sendTo(t.conn, [type |-> "error", error |-> <<"EIO">>]) >>
  /\ UNCHANGED <<stateDue, stateFile, location, greeted, order>>
  /\ UNCHANGED <<CONTEXT_MESSAGES, clients, transport, chatHistory, notes, notesFile,
                 activeMeetings, meetingObj, files, nextId, ops, produced, chatDue>>

\* ======================================================= OTHER PAYLOADS
\* payloads that reach none of the handlers above: cut-off JSON, the JSON value null, an
\* object without a type, an object with a type no case matches, and a ping
RawData == {<<"{">>, <<"null">>, <<"{}">>, <<"{\"type\":\"dance\"}">>,
            <<"{\"type\":\"ping\"}">>}

Str(s) == [t |-> "string", v |-> s]
\* JSON.parse(data.toString()) on those payloads
JSONParse(data) ==
  CASE data = <<"{">> -> [ok |-> FALSE, error |-> <<"Unexpected end of JSON input">>]
    [] data = <<"null">> -> [ok |-> TRUE, value |-> Null]
    [] data = <<"{}">> -> [ok |-> TRUE, value |-> [t |-> "object", type |-> Undef]]
    [] data = <<"{\"type\":\"dance\"}">> ->
         [ok |-> TRUE, value |-> [t |-> "object", type |-> Str(<<"dance">>)]]
    [] data = <<"{\"type\":\"ping\"}">> ->
         [ok |-> TRUE, value |-> [t |-> "object", type |-> Str(<<"ping">>)]]

\* mutant of Reply: a payload that does not parse is reported to the whole room
Reply_ErrorToRoom(c, data) ==
  LET parsed == JSONParse(data)
  IN IF ~ parsed.ok
       THEN << broadcast(clients, [type |-> "error", error |-> parsed.error], 0) >>
     ELSE IF parsed.value = Null
       THEN << sendTo(c, [type |-> "error",
                          error |-> <<"Cannot read properties of null (reading 'type')">>]) >>
     ELSE IF parsed.value.type = Str(<<"ping">>)
       THEN << sendTo(c, [type |-> "pong"]) >>
     ELSE <<>>

\* what the 'message' callback sends for such a payload: the catch block's error when
\* JSON.parse throws or `msg.type` is read off null, a pong for a ping, nothing in the
\* default case of handleMessage
Reply(c, data) ==
  LET parsed == JSONParse(data)
  IN IF ~ parsed.ok
       THEN << sendTo(c, [type |-> "error", error |-> parsed.error]) >>
     ELSE IF parsed.value = Null
       THEN << sendTo(c, [type |-> "error",
                          error |-> <<"Cannot read properties of null (reading 'type')">>]) >>
     ELSE IF parsed.value.type = Str(<<"ping">>)
       THEN << sendTo(c, [type |-> "pong"]) >>
     ELSE <<>>

\* the 'message' callback on such a payload
OtherMessage(c, data) ==
  /\ Arrives(c)
  /\ ops' = ops - 1
  /\ sent' = Reply(c, data)
  /\ UNCHANGED <<stateDue, stateFile, location, greeted, order>>
  /\ UNCHANGED <<CONTEXT_MESSAGES, clients, transport, chatHistory, notes, notesFile,
                 activeMeetings, meetingObj, files, tasks, nextId, produced, chatDue>>

\* ================================================================== Next
Next ==
  \/ \E c \in Conn, data \in RawData : OtherMessage(c, data)
  \/ \E c \in Conn, place \in Place : Move(c, place)
  \/ \E c \in Conn, update \in Update : StateUpdateStart(c, update)
  \/ \E t \in BagToSet(tasks) : StateLoaded(t)
  \/ \E t \in BagToSet(tasks) : StateSaved(t)
  \/ \E t \in BagToSet(tasks) : StateSaveFail(t)
  \/ \E c \in Conn, u \in User : AuthStart(c, u)
  \/ \E t \in BagToSet(tasks) : AuthResume(t)
  \/ \E c \in Conn : TransportClosing(c)
  \/ \E c \in Conn : CloseEvent(c)
  \/ \E c \in Conn, text \in Text : ChatStart(c, text)
  \/ \E t \in BagToSet(tasks) : ChatLogged(t)
  \/ \E t \in BagToSet(tasks) : ChatLogFail(t)
  \/ \E c \in Conn, text \in Text, id \in InvokeId : InvokeStart(c, text, id)
  \/ \E t \in BagToSet(tasks), r \in Completion : AIReturn(t, r)
  \/ \E t \in BagToSet(tasks) : AILogDone(t)
  \/ \E t \in BagToSet(tasks) : AILogFail(t)
  \/ \E c \in Conn, a \in StartArgs, now \in StartMinute :
       MeetingStart(c, a[1], a[2], a[3], now)
  \/ \E c \in Conn, id \in MeetingArg : MeetingJoin(c, id)
  \/ \E c \in Conn, id \in MeetingArg, now \in Minute : MeetingEndStart(c, id, now)
  \/ \E t \in BagToSet(tasks) : MeetingEndWritten(t)
  \/ \E t \in BagToSet(tasks) : MeetingEndWriteFail(t)
  \/ \E t \in BagToSet(tasks) : MeetingEndSaved(t)
  \/ \E t \in BagToSet(tasks) : MeetingEndSaveFail(t)
  \/ \E c \in Conn, a \in NoteArgs : NoteAddStart(c, a[1], a[2], a[3], a[4])
  \/ \E t \in BagToSet(tasks) : NoteAddSaved(t)
  \/ \E t \in BagToSet(tasks) : NoteAddSaveFail(t)
  \/ \E c \in Conn, noteId \in NoteId : NoteDeleteStart(c, noteId)
  \/ \E t \in BagToSet(tasks) : NoteDeleteSaved(t)
  \/ \E t \in BagToSet(tasks) : NoteDeleteSaveFail(t)

Spec == Init /\ [][Next]_vars

\* ------------------------------------------------- the room once seated
NextRoom ==
  \/ \E c \in Conn : CloseEvent(c)
  \/ \E c \in Conn, text \in Text : ChatStart(c, text)
  \/ \E t \in BagToSet(tasks) : ChatLogged(t)
  \/ \E t \in BagToSet(tasks) : ChatLogFail(t)
  \/ \E c \in Conn, text \in Text, id \in InvokeId : InvokeStart(c, text, id)
  \/ \E t \in BagToSet(tasks), r \in Completion : AIReturn(t, r)
  \/ \E t \in BagToSet(tasks) : AILogDone(t)
  \/ \E t \in BagToSet(tasks) : AILogFail(t)
  \/ \E c \in Conn, a \in StartArgs, now \in StartMinute :
       MeetingStart(c, a[1], a[2], a[3], now)
  \/ \E c \in Conn, id \in MeetingArg : MeetingJoin(c, id)
  \/ \E c \in Conn, id \in MeetingArg, now \in Minute : MeetingEndStart(c, id, now)
  \/ \E t \in BagToSet(tasks) : MeetingEndWritten(t)
  \/ \E t \in BagToSet(tasks) : MeetingEndWriteFail(t)
  \/ \E t \in BagToSet(tasks) : MeetingEndSaved(t)
  \/ \E t \in BagToSet(tasks) : MeetingEndSaveFail(t)

SpecRoom == InitSeated /\ [][NextRoom]_vars

\* ------------------------------------------------ meetings only, seated
NextMeeting ==
  \/ \E c \in Conn : TransportClosing(c)
  \/ \E c \in Conn : CloseEvent(c)
  \/ \E c \in Conn, a \in StartArgs, now \in StartMinute :
       MeetingStart(c, a[1], a[2], a[3], now)
  \/ \E c \in Conn, id \in MeetingArg : MeetingJoin(c, id)
  \/ \E c \in Conn, id \in MeetingArg, now \in Minute : MeetingEndStart(c, id, now)
  \/ \E t \in BagToSet(tasks) : MeetingEndWritten(t)
  \/ \E t \in BagToSet(tasks) : MeetingEndWriteFail(t)
  \/ \E t \in BagToSet(tasks) : MeetingEndSaved(t)
  \/ \E t \in BagToSet(tasks) : MeetingEndSaveFail(t)

SpecMeeting == InitSeated /\ [][NextMeeting]_vars


\* ------------------------------------------- chat and AI on a full history
\* a history of n chats by ALICE, as it stands after n chat messages were handled
Filled(n) == [i \in 1..n |-> [type |-> "chat", id |-> i, from |-> ALICE, text |-> HELLO]]

InitHistory ==
  \E n \in (MAX_HISTORY - 1)..MAX_HISTORY : Room(Seated, Filled(n), n + 1, <<>>, NoMeetings, <<>>, MaxExtra)

NextHistory ==
  \/ \E c \in Conn, text \in Text : ChatStart(c, text)
  \/ \E t \in BagToSet(tasks) : ChatLogged(t)
  \/ \E t \in BagToSet(tasks) : ChatLogFail(t)
  \/ \E c \in Conn, text \in Text, id \in InvokeId : InvokeStart(c, text, id)
  \/ \E t \in BagToSet(tasks), r \in Completion : AIReturn(t, r)
  \/ \E t \in BagToSet(tasks) : AILogDone(t)
  \/ \E t \in BagToSet(tasks) : AILogFail(t)

SpecHistory == InitHistory /\ [][NextHistory]_vars

\* ------------------------------- chat, AI, meetings and closes, seated
\* one request of each outcome: a start with and without coordinates, joins and ends by
\* id, prefix and unknown id
NextParticipants ==
  \/ \E c \in Conn : CloseEvent(c)
  \/ \E c \in Conn, text \in Text : ChatStart(c, text)
  \/ \E t \in BagToSet(tasks) : ChatLogged(t)
  \/ \E c \in Conn : InvokeStart(c, HELLO, NoReply)
  \/ \E t \in BagToSet(tasks), r \in Completion : AIReturn(t, r)
  \/ \E t \in BagToSet(tasks) : AILogDone(t)
  \/ \E c \in Conn, a \in {<<Num(52), Num(52), <<>> >>, <<Undef, Undef, <<>> >>} :
       MeetingStart(c, a[1], a[2], a[3], 0)
  \/ \E c \in Conn, id \in MeetingArg : MeetingJoin(c, id)
  \/ \E c \in Conn, id \in MeetingArg : MeetingEndStart(c, id, 0)
  \/ \E t \in BagToSet(tasks) : MeetingEndWritten(t)
  \/ \E t \in BagToSet(tasks) : MeetingEndSaved(t)

SpecParticipants == InitSeated /\ [][NextParticipants]_vars

\* ------------------------------------------------------ notes only, seated
\* the notes after ALICE and then BOB have each added one
TwoNotes == << NewNote(1, ALICE, Num(52), Num(52), <<>>, HELLO),
               NewNote(2, BOB, Num(0), Num(52), <<"H", "Q">>, HELLO) >>

InitNotes ==
  \E ns \in {<<>>, TwoNotes} : Room(Seated, <<>>, Len(ns) + 1, <<>>, NoMeetings, ns, MaxOps)

NextNotes ==
  \/ \E c \in Conn, a \in NoteArgs : NoteAddStart(c, a[1], a[2], a[3], a[4])
  \/ \E t \in BagToSet(tasks) : NoteAddSaved(t)
  \/ \E t \in BagToSet(tasks) : NoteAddSaveFail(t)
  \/ \E c \in Conn, noteId \in NoteId : NoteDeleteStart(c, noteId)
  \/ \E t \in BagToSet(tasks) : NoteDeleteSaved(t)
  \/ \E t \in BagToSet(tasks) : NoteDeleteSaveFail(t)

SpecNotes == InitNotes /\ [][NextNotes]_vars

\* ------------------------------------- one chat around the AI's name, seated
InitMention == Room(Seated, <<>>, 1, <<>>, NoMeetings, <<>>, 1)

NextMention ==
  \/ \E c \in Conn, text \in MentionText : ChatStart(c, text)
  \/ \E t \in BagToSet(tasks) : ChatLogged(t)
  \/ \E t \in BagToSet(tasks) : ChatLogFail(t)

SpecMention == InitMention /\ [][NextMention]_vars

\* ------------------------------ one AI request over a short history, seated
\* the record a chat of ALICE leaves in the history, and the record an AI response leaves
RecordOf(i, from, text) ==
  [type |-> IF from = AI_USER_ID THEN "ai_response" ELSE "chat", id |-> i, from |-> from,
   text |-> text]
\* what the short histories are made of: ALICE says 'hi' or mentions the AI, the AI
\* answers 'hi' or 'al: hi'
Said == {<<ALICE, HELLO>>, <<ALICE, MENTION>>, <<AI_USER_ID, HELLO>>,
         <<AI_USER_ID, ChatLine(ALICE, HELLO)>>}
ShortHistories ==
  UNION {{[i \in 1..n |-> RecordOf(i, f[i][1], f[i][2])] : f \in [1..n -> Said]} :
           n \in 0..MaxRecords}

InitContext ==
  \E k \in 0..MaxWindow, hist \in ShortHistories :
    Service(k, Seated, hist, Len(hist) + 1, <<>>, NoMeetings, <<>>, 1)

NextContext ==
  \/ \E c \in Conn, text \in Text : ChatStart(c, text)
  \/ \E t \in BagToSet(tasks) : ChatLogged(t)
  \/ \E c \in Conn, text \in Text, id \in InvokeId : InvokeStart(c, text, id)

SpecContext == InitContext /\ [][NextContext]_vars

\* ------------------- chat, AI and closes, seated, one meeting active
\* every connection is seated and ALICE's start request at (52, 52) has created a meeting
InitAI ==
  Room(Seated, <<>>, 1, << <<"k">> >>,
       [NoMeetings EXCEPT ![<<"k">>] = NewMeeting(<<"k">>, ALICE, Num(52), Num(52), <<>>, 0)],
       <<>>, MaxOps)

NextAI ==
  \/ \E c \in Conn : TransportClosing(c)
  \/ \E c \in Conn : CloseEvent(c)
  \/ \E c \in Conn, text \in Text : ChatStart(c, text)
  \/ \E t \in BagToSet(tasks) : ChatLogged(t)
  \/ \E t \in BagToSet(tasks) : ChatLogFail(t)
  \/ \E c \in Conn, id \in InvokeId : InvokeStart(c, HELLO, id)
  \/ \E t \in BagToSet(tasks), r \in Completion : AIReturn(t, r)
  \/ \E t \in BagToSet(tasks) : AILogDone(t)
  \/ \E t \in BagToSet(tasks) : AILogFail(t)

SpecAI == InitAI /\ [][NextAI]_vars

\* ------------------------------------- a connection arrives in a seated room
\* every connection but the last is seated, and the history holds n chats
Arriving == [c \in Conn |-> IF c = NumConn THEN NoClient ELSE Seated[c]]

InitAuth ==
  \E n \in {0, HISTORY_SNAPSHOT - 1, HISTORY_SNAPSHOT} :
    Room(Arriving, Filled(n), n + 1, <<>>, NoMeetings, <<>>, MaxOps)

NextAuth ==
  \/ \E c \in Conn, data \in RawData : OtherMessage(c, data)
  \/ \E c \in Conn, u \in User : AuthStart(c, u)
  \/ \E t \in BagToSet(tasks) : AuthResume(t)
  \/ \E c \in Conn : TransportClosing(c)
  \/ \E c \in Conn : CloseEvent(c)
  \/ \E c \in Conn : ChatStart(c, HELLO)
  \/ \E t \in BagToSet(tasks) : ChatLogged(t)

SpecAuth == InitAuth /\ [][NextAuth]_vars

\* --------------------------------------- state updates, one connection unseated
InitState == Room(Arriving, <<>>, 1, <<>>, NoMeetings, <<>>, MaxOps)

NextState ==
  \/ \E c \in Conn, update \in Update : StateUpdateStart(c, update)
  \/ \E t \in BagToSet(tasks) : StateLoaded(t)
  \/ \E t \in BagToSet(tasks) : StateSaved(t)
  \/ \E t \in BagToSet(tasks) : StateSaveFail(t)

SpecState == InitState /\ [][NextState]_vars

\* ------------------------------- notes, seated, every write succeeding
NextSaves ==
  \/ \E c \in Conn, a \in NoteArgs : NoteAddStart(c, a[1], a[2], a[3], a[4])
  \/ \E t \in BagToSet(tasks) : NoteAddSaved(t)
  \/ \E c \in Conn, noteId \in NoteId : NoteDeleteStart(c, noteId)
  \/ \E t \in BagToSet(tasks) : NoteDeleteSaved(t)

SpecSaves == InitNotes /\ [][NextSaves]_vars

\* ------------------------------ auths, moves and closes, one connection unseated
NextPresence ==
  \/ \E c \in Conn, u \in User : AuthStart(c, u)
  \/ \E t \in BagToSet(tasks) : AuthResume(t)
  \/ \E c \in Conn : TransportClosing(c)
  \/ \E c \in Conn : CloseEvent(c)
  \/ \E c \in Conn, place \in Place : Move(c, place)

SpecPresence == InitState /\ [][NextPresence]_vars

\* ------------------------- moves and AI requests, seated, two notes on the map
InitNearby == Room(Seated, <<>>, 3, <<>>, NoMeetings, TwoNotes, MaxOpsFull)

NextNearby ==
  \/ \E c \in Conn, place \in Place : Move(c, place)
  \/ \E c \in Conn : InvokeStart(c, HELLO, NoReply)
  \/ \E c \in Conn : ChatStart(c, MENTION)
  \/ \E t \in BagToSet(tasks) : ChatLogged(t)

SpecNearby == InitNearby /\ [][NextNearby]_vars

\* ================================================================ CLAIMS
Active(id) == Has(activeMeetings, id)
SessionsOf(userId) == {c \in Conn : clients[c].reg /\ clients[c].userId = userId}

\* C1: over its whole life a meeting produces at most one system note and at most one
\* transcript artifact, and once its end has been announced it is out of the active set,
\* also when several end requests for it overlap.
C1_OneNoteOneArtifact ==
  \A id \in IdPool :
    /\ produced[id].notes <= 1
    /\ produced[id].files <= 1
    /\ (produced[id].ended >= 1 => ~ Active(id))

\* C2: the chat history never holds more than MAX_HISTORY records, and an append made
\* when it holds MAX_HISTORY drops exactly the oldest record, keeps the others in order
\* and puts the new record last.
C2_HistoryBoundFifo ==
  /\ [](Len(chatHistory) <= MAX_HISTORY)
  /\ [][(Len(chatHistory) = MAX_HISTORY /\ chatHistory' # chatHistory)
          => /\ Len(chatHistory') = MAX_HISTORY
             /\ \A i \in 1..(MAX_HISTORY - 1) : chatHistory'[i] = chatHistory[i + 1]
             /\ chatHistory'[MAX_HISTORY].id = nextId]_vars

\* C2 witness: the history is full and its oldest records have been evicted
C2_Witness ==
  /\ Len(chatHistory) = MAX_HISTORY
  /\ chatHistory[1].id > 1
  /\ chatHistory[MAX_HISTORY].id > MAX_HISTORY

\* C3: once the chat handler of a delivered chat has finished, the chat's line is in the
\* transcript of every meeting its sender was a participant of when the chat was appended
\* to the history (chatDue holds the lines still owed).
C3_ChatRecordedInEveryMeeting ==
  \A d \in chatDue : \E t \in Pending("chat") : t.msg.id = d.chat

\* C4: a successful AI request appends '<ai user id>: <response>' to the transcript of
\* every active meeting the invoking user is a participant of.
C4_AIResponseRecordedForInvoker ==
  [][\A t \in BagToSet(tasks), r \in Completion :
       (r.ok /\ AIReturn(t, r)) =>
         \A id \in MeetingsOf(t.fromUser) :
           meetingObj'[id].transcript =
             Append(meetingObj[id].transcript, ChatLine(AI_USER_ID, callOpenClaw(r)))]_vars

\* C5: a start request of a registered session with numeric lat and lng, zero included,
\* creates exactly one meeting with the initiator as only participant and the preamble as
\* transcript, and broadcasts meeting_started.
C5_StartWithNumericCoords ==
  [][\A c \in Conn, a \in StartArgs, now \in StartMinute :
       LET lat == a[1]
           lng == a[2]
           name == a[3]
       IN
       (/\ clients[c].reg
        /\ lat.t = "number" /\ lng.t = "number"
        /\ MeetingStart(c, lat, lng, name, now))
       => /\ Len(activeMeetings') = Len(activeMeetings) + 1
          /\ SubSeq(activeMeetings', 1, Len(activeMeetings)) = activeMeetings
          /\ LET m == meetingObj'[activeMeetings'[Len(activeMeetings')]]
             IN /\ m.participants = <<clients[c].userId>>
                /\ m.transcript = Preamble(clients[c].userId, lat, lng, name, now)
          /\ Len(sent') = 1
          /\ sent'[1].via = "broadcast"
          /\ sent'[1].msg.type = "meeting_started"]_vars

\* C6: a start request in which lat or lng is absent creates no meeting, changes no shared
\* state and sends one error, to sessions of the initiator's user id only.
C6_StartWithoutCoords ==
  [][\A c \in Conn, a \in StartArgs, now \in StartMinute :
       LET lat == a[1]
           lng == a[2]
           name == a[3]
       IN
       (/\ clients[c].reg
        /\ (lat = Undef \/ lng = Undef)
        /\ MeetingStart(c, lat, lng, name, now))
       => /\ UNCHANGED <<activeMeetings, meetingObj, notes, notesFile, chatHistory, clients,
                         files, tasks>>
          /\ Len(sent') = 1
          /\ sent'[1].msg.type = "error"
          /\ sent'[1].via # "broadcast"
          /\ c \in sent'[1].rcpt
          /\ sent'[1].rcpt \subseteq SessionsOf(clients[c].userId)]_vars

\* C6 witness: the location error was sent while a session of another user is open, and
\* no meeting exists
C6_Witness ==
  /\ Len(sent) = 1
  /\ sent[1].msg = ErrorText(<<"Select a location on the map before starting a meeting.">>)
  /\ sent[1].rcpt # {}
  /\ \E c \in Conn : clients[c].reg /\ Open(c) /\ c \notin sent[1].rcpt
  /\ activeMeetings = <<>>


\* C7 (as claimed): an end request of a registered session that resolves to a meeting
\* nobody is in is accepted: the end handler goes on to write the transcript.
C7_EmptyMeetingEndedByAnyone ==
  [][\A c \in Conn, arg \in MeetingArg, now \in Minute :
       (/\ clients[c].reg
        /\ Resolve(arg) # <<>>
        /\ meetingObj[Resolve(arg)].participants = <<>>
        /\ MeetingEndStart(c, arg, now))
       => /\ sent' = <<>>
          /\ \E t \in BagToSet(tasks') : t.kind = "end" /\ t.meetingId = Resolve(arg)]_vars

\* C7 (amended): an end request of a registered session that resolves to a meeting nobody
\* is in fails: the one send is the not-a-member error, and the meeting stays active and
\* unchanged with no note, no artifact and no handler started.
C7_EmptyMeetingCannotBeEnded ==
  [][\A c \in Conn, arg \in MeetingArg, now \in Minute :
       (/\ clients[c].reg
        /\ Resolve(arg) # <<>>
        /\ meetingObj[Resolve(arg)].participants = <<>>
        /\ MeetingEndStart(c, arg, now))
       => /\ UNCHANGED <<activeMeetings, meetingObj, notes, notesFile, files, tasks, produced>>
          /\ Len(sent') = 1
          /\ sent'[1].msg = ErrorText(<<"You are not in this meeting.">>)
          /\ c \in sent'[1].rcpt]_vars

\* C7 witness: the only active meeting has no participant and an end request for it has
\* just been refused
C7_Witness ==
  /\ Len(activeMeetings) = 1
  /\ meetingObj[activeMeetings[1]].participants = <<>>
  /\ Len(sent) = 1
  /\ sent[1].msg = ErrorText(<<"You are not in this meeting.">>)
  /\ sent[1].rcpt # {}

\* C8: once meeting_ended was broadcast for an id, no step broadcasts meeting_joined or
\* meeting_ended for that id again, and the id is not in the active set.
C8_EndedIsTerminal ==
  [][\A id \in IdPool :
       produced[id].ended >= 1 =>
         /\ ~ Has(activeMeetings', id)
         /\ \A i \in 1..Len(sent') :
              ~ (/\ sent'[i].msg.type \in {"meeting_joined", "meeting_ended"}
                 /\ sent'[i].msg.meetingId = id)]_vars

\* a meeting request of connection c is handled in this step
MeetingRequest(c) ==
  \/ \E a \in StartArgs, now \in StartMinute : MeetingStart(c, a[1], a[2], a[3], now)
  \/ \E arg \in MeetingArg : MeetingJoin(c, arg)
  \/ \E arg \in MeetingArg, now \in Minute : MeetingEndStart(c, arg, now)

\* C9 (as claimed): the error of a failed meeting request reaches the requesting session
\* and no other session.
C9_ErrorToRequesterOnly ==
  [][\A c \in Conn :
       (/\ clients[c].reg
        /\ Len(sent') = 1
        /\ sent'[1].msg.type = "error"
        /\ MeetingRequest(c))
       => sent'[1].rcpt = {c}]_vars

\* C9 (amended): the error of a failed meeting request reaches the requesting session and
\* every other session with an open transport that is registered with the requester's
\* user id, and no session registered with another user id.
C9_ErrorToSessionsOfUser ==
  [][\A c \in Conn :
       (/\ clients[c].reg
        /\ Len(sent') = 1
        /\ sent'[1].msg.type = "error"
        /\ MeetingRequest(c))
       => /\ c \in sent'[1].rcpt
          /\ sent'[1].rcpt = {d \in SessionsOf(clients[c].userId) : Open(d)}]_vars

\* C9 witness: a meeting error went to two sessions at once while a session of another
\* user was open and got nothing
C9_Witness ==
  /\ Len(sent) = 1
  /\ sent[1].via = "sendToUser"
  /\ sent[1].msg.type = "error"
  /\ Cardinality(sent[1].rcpt) >= 2
  /\ \E c \in Conn : clients[c].reg /\ Open(c) /\ c \notin sent[1].rcpt

\* what a failed join or end leaves alone
FailedRequestFrame ==
  /\ UNCHANGED <<activeMeetings, meetingObj, notes, notesFile, files, tasks, produced>>
  /\ \A i \in 1..Len(sent') : sent'[i].via # "broadcast"

\* C10: a join that finds no meeting or finds the requester already in, and an end that
\* finds no meeting or finds the requester not in, change no participant set, transcript,
\* active set or note and broadcast nothing.
C10_FailedJoinEndChangeNothing ==
  [][\A c \in Conn, arg \in MeetingArg :
       LET userId == clients[c].userId
           id == Resolve(arg)
       IN /\ (/\ clients[c].reg
              /\ (id = <<>> \/ Has(meetingObj[id].participants, userId))
              /\ MeetingJoin(c, arg))
             => FailedRequestFrame
          /\ \A now \in Minute :
               (/\ clients[c].reg
                /\ (id = <<>> \/ ~ Has(meetingObj[id].participants, userId))
                /\ MeetingEndStart(c, arg, now))
               => FailedRequestFrame]_vars

\* C10 witness: a participant's join of its own meeting has just been refused
C10_Witness ==
  /\ activeMeetings # <<>>
  /\ Len(sent) = 1
  /\ sent[1].msg = ErrorText(<<"You are already in this meeting.">>)
  /\ \E c \in sent[1].rcpt : \E i \in 1..Len(activeMeetings) :
       Has(meetingObj[activeMeetings[i]].participants, clients[c].userId)

\* C11: a join of a registered session whose user is not yet a participant of the meeting
\* the argument resolves to appends the user to that meeting's participants, appends the
\* join line and a blank line (and nothing else) to its transcript, broadcasts one
\* meeting_joined carrying the updated participant list to every registered session with
\* an open transport, and leaves every other meeting and the active set unchanged.
C11_JoinAddsParticipant ==
  [][\A c \in Conn, arg \in MeetingArg :
       LET userId == clients[c].userId
           id == Resolve(arg)
       IN (/\ clients[c].reg
           /\ id # <<>>
           /\ ~ Has(meetingObj[id].participants, userId)
           /\ MeetingJoin(c, arg))
          => /\ meetingObj'[id].participants = Append(meetingObj[id].participants, userId)
             /\ Len(meetingObj'[id].transcript) = Len(meetingObj[id].transcript) + 2
             /\ SubSeq(meetingObj'[id].transcript, 1, Len(meetingObj[id].transcript))
                  = meetingObj[id].transcript
             /\ meetingObj'[id].transcript[Len(meetingObj[id].transcript) + 1]
                  = <<"[">> \o userId \o <<" joined the meeting]">>
             /\ meetingObj'[id].transcript[Len(meetingObj[id].transcript) + 2] = <<>>
             /\ \A other \in IdPool \ {id} : meetingObj'[other] = meetingObj[other]
             /\ activeMeetings' = activeMeetings
             /\ Len(sent') = 1
             /\ sent'[1].msg.type = "meeting_joined"
             /\ sent'[1].msg.meetingId = id
             /\ sent'[1].msg.participants = meetingObj'[id].participants
             /\ sent'[1].rcpt = {d \in Conn : clients[d].reg /\ Open(d)}]_vars

\* C11 witness: with two meetings active, a join has just been announced with a list of
\* two participants
C11_Witness ==
  /\ Len(activeMeetings) = 2
  /\ Len(sent) = 1
  /\ sent[1].msg.type = "meeting_joined"
  /\ Len(sent[1].msg.participants) = 2
  /\ sent[1].rcpt # {}

\* C12: the close event of a registered session removes the session's user id from the
\* participants of every active meeting it is in and appends exactly the line
\* '[<user> disconnected]' to each of those transcripts; every other meeting is unchanged,
\* the active set is unchanged also when a participant list becomes empty, and nothing is
\* ended: no handler is started, no note or artifact produced, no meeting_ended sent.
C12_CloseLeavesMeetings ==
  [][\A c \in Conn :
       (clients[c].reg /\ CloseEvent(c)) =>
         LET userId == clients[c].userId
         IN /\ \A id \in IdPool :
                 IF Active(id) /\ Has(meetingObj[id].participants, userId)
                   THEN /\ ~ Has(meetingObj'[id].participants, userId)
                        /\ \A u \in User \ {userId} :
                             Has(meetingObj'[id].participants, u)
                               <=> Has(meetingObj[id].participants, u)
                        /\ meetingObj'[id].transcript =
                             Append(meetingObj[id].transcript,
                                    <<"[">> \o userId \o <<" disconnected]">>)
                   ELSE meetingObj'[id] = meetingObj[id]
            /\ UNCHANGED <<activeMeetings, notes, notesFile, files, tasks, produced>>
            /\ \A i \in 1..Len(sent') : sent'[i].msg.type # "meeting_ended"]_vars

\* C12 witness: a close has just emptied an active meeting, whose transcript ends with the
\* disconnected line, while the meeting is still active
C12_Witness ==
  /\ Len(sent) = 1
  /\ sent[1].msg.type = "presence"
  /\ \E id \in IdPool :
       /\ Active(id)
       /\ meetingObj[id].participants = <<>>
       /\ meetingObj[id].transcript[Len(meetingObj[id].transcript)]
            = <<"[">> \o ALICE \o <<" disconnected]">>

\* C13: every meeting is active with a participant when it is created, and a user leaves
\* the participants of an active meeting only in the step that handles the close event of
\* a session registered with that user id: no start, join, chat, AI response, end or
\* failed request removes a participant.
C13_OnlyCloseRemoves ==
  /\ \A id \in IdPool : Active(id) => meetingObj[id].participants # <<>>
  /\ [][\A id \in IdPool :
          /\ (Has(activeMeetings', id) /\ ~ Active(id))
               => meetingObj'[id].participants # <<>>
          /\ \A u \in User :
               (/\ Active(id) /\ Has(activeMeetings', id)
                /\ Has(meetingObj[id].participants, u)
                /\ ~ Has(meetingObj'[id].participants, u))
               => \E c \in Conn :
                    clients[c].reg /\ clients[c].userId = u /\ CloseEvent(c)]_vars

\* C13 witness: an active meeting whose transcript holds a chat line has lost its last
\* participant to a close
C13_Witness ==
  \E id \in IdPool :
    /\ Active(id)
    /\ meetingObj[id].participants = <<>>
    /\ Has(meetingObj[id].transcript, ChatLine(ALICE, HELLO))
    /\ Len(sent) = 1
    /\ sent[1].msg.type = "presence"

\* the requester of connection c is the author of a note with id noteId
AuthorOf(c, noteId) ==
  \E i \in 1..Len(notes) : notes[i].id = noteId /\ notes[i].author = clients[c].userId

\* C14: a delete request of a registered session removes a note exactly when the session's
\* user id is the author of the note with the requested id, and then removes only that
\* note; for any other requester the notes list and notes.json are unchanged, no write is
\* started, and nothing (no note_deleted, no error) is sent.
C14_DeleteOnlyByAuthor ==
  [][\A c \in Conn, noteId \in NoteId :
       (clients[c].reg /\ NoteDeleteStart(c, noteId)) =>
         IF AuthorOf(c, noteId)
           THEN /\ Len(notes') = Len(notes) - 1
                /\ \A i \in 1..Len(notes) :
                     Has(notes', notes[i])
                       <=> ~ (notes[i].id = noteId /\ notes[i].author = clients[c].userId)
           ELSE /\ UNCHANGED <<notes, notesFile, tasks>>
                /\ sent' = <<>>]_vars

\* C14 witness: the two notes of ALICE and BOB are in memory and on disk untouched after
\* one delete request, with no write pending and nothing sent
C14_Witness ==
  /\ notes = TwoNotes
  /\ notesFile = TwoNotes
  /\ ops = MaxOps - 1
  /\ tasks = EmptyBag
  /\ sent = <<>>
  /\ nextId = 3

\* the step appends one note to the notes list: a note of connection c's user, with a new
\* id and the fields of the request a
AppendsNoteOf(c, a) ==
  /\ Len(notes') = Len(notes) + 1
  /\ SubSeq(notes', 1, Len(notes)) = notes
  /\ LET note == notes'[Len(notes')]
     IN /\ note.author = clients[c].userId
        /\ note.lat = a[1]
        /\ note.lng = a[2]
        /\ note.locationName = (IF a[3] = <<>> THEN Null ELSE a[3])
        /\ note.text = a[4]
        /\ \A i \in 1..Len(notes) : notes[i].id # note.id

\* a step in which the add handler t comes to its end
AddHandlerEnds(t) == t.kind = "noteAdd" /\ (NoteAddSaved(t) \/ NoteAddSaveFail(t))

PrefixMatches(arg) ==
  {i \in 1..Len(activeMeetings) :
     /\ Len(arg) <= Len(activeMeetings[i])
     /\ \A k \in 1..Len(arg) : activeMeetings[i][k] = arg[k]}

\* the meeting the claim says a join or end with argument arg is about
Target(arg) ==
  IF \E i \in 1..Len(activeMeetings) : activeMeetings[i] = arg THEN arg
  ELSE activeMeetings[CHOOSE i \in PrefixMatches(arg) : \A j \in PrefixMatches(arg) : i <= j]

\* C16: a join or end of a registered session with argument arg fails with 'Meeting not
\* found.' exactly when no active meeting has the id arg and none has an id starting with
\* arg; otherwise it is about the active meeting with id arg when there is one, and else
\* about the first active meeting in creation order whose id starts with arg: the
\* membership test, the participant added and the meeting_joined sent, and the end
\* handler started are all for that meeting.
C16_ExactThenFirstPrefix ==
  [][\A c \in Conn, arg \in MeetingArg :
       LET userId == clients[c].userId
           none == ~ Active(arg) /\ PrefixMatches(arg) = {}
           NotFound == /\ Len(sent') = 1
                       /\ sent'[1].msg = ErrorText(<<"Meeting not found.">>)
       IN /\ (clients[c].reg /\ MeetingJoin(c, arg)) =>
               IF none THEN NotFound
               ELSE IF Has(meetingObj[Target(arg)].participants, userId)
                 THEN sent'[1].msg = ErrorText(<<"You are already in this meeting.">>)
               ELSE /\ sent'[1].msg.type = "meeting_joined"
                    /\ sent'[1].msg.meetingId = Target(arg)
                    /\ Has(meetingObj'[Target(arg)].participants, userId)
                    /\ \A id \in IdPool \ {Target(arg)} : meetingObj'[id] = meetingObj[id]
          /\ \A now \in Minute :
               (clients[c].reg /\ MeetingEndStart(c, arg, now)) =>
                 IF none THEN NotFound
                 ELSE IF ~ Has(meetingObj[Target(arg)].participants, userId)
                   THEN sent'[1].msg = ErrorText(<<"You are not in this meeting.">>)
                 ELSE /\ sent' = <<>>
                      /\ \E t \in BagToSet(tasks') :
                           /\ t.kind = "end"
                           /\ t.meetingId = Target(arg)
                           /\ BagCardinality(tasks') = BagCardinality(tasks) + 1
                           /\ CopiesIn(t, tasks') = CopiesIn(t, tasks) + 1
                      /\ \A id \in IdPool \ {Target(arg)} : meetingObj'[id] = meetingObj[id]]_vars

\* C16 witness: with the meeting "k1" created before the meeting "k", a join has been
\* announced for "k", which only the argument "k" resolves to: by exact match, past the
\* earlier meeting whose id starts with it
C16_Witness ==
  /\ activeMeetings = << <<"k", "1">>, <<"k">> >>
  /\ Len(sent) = 1
  /\ sent[1].msg.type = "meeting_joined"
  /\ sent[1].msg.meetingId = <<"k">>

\* the AI user id stands in text at position i, letter case aside
NameAt(text, i) ==
  /\ i + Len(AI_USER_ID) - 1 <= Len(text)
  /\ \A k \in 1..Len(AI_USER_ID) : Lower(text[i + k - 1]) = Lower(AI_USER_ID[k])

\* ... as a token: no letter, digit or underscore right before it or right after it
NameAsToken(text) ==
  \E i \in 1..Len(text) :
    /\ NameAt(text, i)
    /\ (i = 1 \/ ~ IsWordChar(text[i - 1]))
    /\ (i + Len(AI_USER_ID) > Len(text) \/ ~ IsWordChar(text[i + Len(AI_USER_ID)]))

\* C17: isMentioned(text) is true exactly when the AI user id occurs in text, letter case
\* aside, with no word character right before and none right after it (an '@' before it
\* is such a non-word character): the chat handler goes on to the AI request exactly for
\* those texts.
C17_MentionIsToken ==
  [][\A t \in BagToSet(tasks) :
       (t.kind = "chat" /\ ChatLogged(t)) =>
         /\ isMentioned(t.msg.text) <=> NameAsToken(t.msg.text)
         /\ (\E a \in BagToSet(tasks') : a.kind = "ai" /\ a.replyTo = t.msg.id)
              <=> NameAsToken(t.msg.text)]_vars

\* C17 witness: the chat 'xpauline pauline', whose first occurrence of the name runs out of
\* a longer word and whose second is a token, has started an AI request
C17_Witness ==
  /\ Len(chatHistory) = 1
  /\ chatHistory[1].text = <<"x">> \o AI_USER_ID \o <<"x", " ">> \o AI_USER_ID
  /\ \E a \in BagToSet(tasks) : a.kind = "ai" /\ a.replyTo = chatHistory[1].id

\* the AI requests this step starts
NewAITasks ==
  {a \in BagToSet(tasks') : a.kind = "ai" /\ CopiesIn(a, tasks') > CopiesIn(a, tasks)}

\* C18: when the handler of a chat that mentions the AI builds the completion request, the
\* messages start with the system turn, end with the user turn '<from>: <text>' of that
\* chat, and hold that chat once: either as the turn made of its history record or as the
\* appended final turn, not both -- also when other records were appended to the history
\* while the handler waited for the chat log.
C18_TriggeringChatOnce ==
  [][\A t \in BagToSet(tasks) :
       (t.kind = "chat" /\ isMentioned(t.msg.text) /\ ChatLogged(t)) =>
         \A a \in NewAITasks :
           a.replyTo = t.msg.id =>
             LET window == LastN(chatHistory, CONTEXT_MESSAGES)
                 inWindow == Cardinality({j \in 1..Len(window) : window[j].id = t.msg.id})
                 appended == IF Len(a.messages) = Len(window) + 2 THEN 1 ELSE 0
             IN /\ a.messages[1].role = "system"
                /\ a.messages[Len(a.messages)] =
                     [role |-> "user", content |-> ChatLine(t.msg.from, t.msg.text)]
                /\ inWindow + appended = 1]_vars

\* the turn of the message an AI request is made for
CurrentTurn(a) == [role |-> "user", content |-> ChatLine(a.fromUser, a.text)]

\* the turns buildContext has assembled before it looks at the current message
Assembled(a) ==
  LET recent == Slice(chatHistory, 0 - CONTEXT_MESSAGES)
  IN << [role |-> "system", content |-> SystemContent(a.fromUser)] >>
       \o [i \in 1..Len(recent) |-> Turn(recent[i])]

\* C19: the messages of an AI request are the assembled turns, followed by the user turn
\* '<from>: <text>' exactly when the last assembled turn does not have that content; when
\* the triggering chat is the last record of the history nothing is appended, so that it
\* appears once; and in every case the last of the messages is a user turn carrying the
\* triggering message.  (Stated for windows of at least one record; C20 is about the
\* window.)
C19_FinalTurnIsCurrent ==
  [][\A a \in NewAITasks :
       LET assembled == Assembled(a)
           same == assembled[Len(assembled)].content = CurrentTurn(a).content
       IN CONTEXT_MESSAGES > 0 =>
            (/\ a.messages = (IF same THEN assembled ELSE Append(assembled, CurrentTurn(a)))
             /\ (chatHistory # <<>> /\ chatHistory[Len(chatHistory)].id = a.replyTo)
                  => a.messages = assembled
             /\ a.messages[Len(a.messages)] = CurrentTurn(a))]_vars

\* C20: with a window of K = CONTEXT_MESSAGES >= 0, the messages of an AI request are the
\* system turn, then min(K, |history|) turns made of the K most recent history records in
\* order (an assistant turn for a record of the AI id, a user turn '<from>: <text>'
\* otherwise), then at most the turn of the current message.
C20_WindowOfK ==
  [][\A a \in NewAITasks :
       LET n == Len(chatHistory)
           m == IF CONTEXT_MESSAGES < n THEN CONTEXT_MESSAGES ELSE n
       IN /\ Len(a.messages) \in {1 + m, 2 + m}
          /\ \A j \in 1..m :
               a.messages[1 + j] =
                 (IF chatHistory[n - m + j].from = AI_USER_ID
                    THEN [role |-> "assistant", content |-> chatHistory[n - m + j].text]
                    ELSE [role |-> "user",
                          content |-> chatHistory[n - m + j].from \o <<":", " ">>
                                        \o chatHistory[n - m + j].text])
          /\ Len(a.messages) = 2 + m => a.messages[2 + m] = CurrentTurn(a)]_vars


\* ---------------------------------------------------------------- C21
\* the completion requests in flight in the bag b on behalf of the message replyToId
AIRequests(b, replyToId) ==
  LET S == {t \in BagToSet(b) : t.kind = "ai" /\ t.replyTo = replyToId}
  IN BagCardinality([t \in S |-> b[t]])
ReplyIds == InvokeId \cup 1..nextId
Delta(cond) == IF cond THEN 1 ELSE 0

\* C21: every AI invocation (an invoke, or a chat that mentions the AI) puts one more
\* completion request in flight for its own message, identical requests included, a
\* returning completion takes away only its own request, and the ai_response it broadcasts
\* carries the inReplyTo of the message that started that request, whichever request
\* returns first.
C21_OwnRequestOwnReply ==
  [][/\ \A c \in Conn, text \in Text, id \in InvokeId :
          (InvokeStart(c, text, id) /\ clients[c].reg) =>
            \A x \in ReplyIds : AIRequests(tasks', x) = AIRequests(tasks, x) + Delta(x = id)
     /\ \A t \in Pending("chat") :
          ChatLogged(t) =>
            \A x \in ReplyIds :
              AIRequests(tasks', x) =
                AIRequests(tasks, x) + Delta(isMentioned(t.msg.text) /\ x = t.msg.id)
     /\ \A t \in Pending("ai"), r \in Completion :
          AIReturn(t, r) =>
            /\ \A x \in ReplyIds :
                 AIRequests(tasks', x) = AIRequests(tasks, x) - Delta(x = t.replyTo)
            /\ r.ok => /\ Len(sent') = 1
                       /\ sent'[1].via = "broadcast"
                       /\ sent'[1].msg.type = "ai_response"
                       /\ sent'[1].msg.inReplyTo = t.replyTo]_vars

\* two mentions are in flight and the response to the later one has just been broadcast
C21_Witness ==
  /\ Len(sent) = 1
  /\ sent[1].msg.type = "ai_response"
  /\ \E t \in Pending("ai") :
       /\ t.replyTo # NoReply
       /\ sent[1].msg.inReplyTo > t.replyTo
       /\ \E i \in 1..Len(chatHistory) :
            chatHistory[i].id = sent[1].msg.inReplyTo /\ isMentioned(chatHistory[i].text)


\* ---------------------------------------------------------------- C22
\* C22: when the completion call of a request fails, that step broadcasts one error event
\* to every registered session with an open transport and nothing else, leaves the chat
\* history and the meeting transcripts as they were, takes the request out of flight
\* without putting another one in, and leaves the registry, the transports and the
\* pending handlers of other messages untouched.
C22_FailureBroadcastsOneError ==
  [][\A t \in Pending("ai"), r \in Completion :
       (~ r.ok /\ AIReturn(t, r)) =>
         /\ Len(sent') = 1
         /\ sent'[1].msg.type = "error"
         /\ sent'[1].rcpt = {c \in Conn : clients[c].reg /\ transport[c] = "OPEN"}
         /\ chatHistory' = chatHistory
         /\ meetingObj' = meetingObj
         /\ BagCardinality(tasks') = BagCardinality(tasks) - 1
         /\ CopiesIn(t, tasks') = CopiesIn(t, tasks) - 1
         /\ \A t2 \in BagToSet(tasks) \ {t} : CopiesIn(t2, tasks') = CopiesIn(t2, tasks)
         /\ UNCHANGED <<clients, transport, ops>>]_vars

\* a failed completion has just been reported to two sessions, one of them not the
\* invoker's, while a session whose transport is closing got nothing
C22_Witness ==
  /\ Len(sent) = 1
  /\ sent[1].via = "broadcast"
  /\ sent[1].msg.type = "error"
  /\ sent[1].msg.text = <<"Failed to get AI response: ", "5", "0", "2">>
  /\ \E c \in sent[1].rcpt : clients[c].userId = ALICE
  /\ \E c \in sent[1].rcpt : clients[c].userId = BOB
  /\ \E c \in Conn : clients[c].reg /\ transport[c] = "CLOSING"


\* ---------------------------------------------------------------- C23
\* C23: the step of handleChat that appends a chat to the history also broadcasts it to
\* the room, so that no chat is ever left waiting for its chat-log write before it is
\* broadcast.
C23_BroadcastNotBlockedOnLog ==
  [][\A c \in Conn, text \in Text :
       (clients[c].reg /\ ChatStart(c, text)) =>
         \E i \in 1..Len(sent') :
           /\ sent'[i].via = "broadcast"
           /\ sent'[i].msg.type = "chat"
           /\ sent'[i].msg.id = nextId]_vars


\* ---------------------------------------------------------------- C24
\* C24: chat records get their ids in the order they are appended to the history, so when
\* two chat broadcasts made one after the other reach a common session, the one made first
\* carries the chat that was appended first.
C24_ChatBroadcastsInHistoryOrder ==
  [][\A i \in 1..Len(sent), j \in 1..Len(sent') :
       (/\ sent[i].msg.type = "chat"
        /\ sent'[j].msg.type = "chat"
        /\ sent[i].rcpt \cap sent'[j].rcpt # {}) =>
         sent[i].msg.id < sent'[j].msg.id]_vars


\* ---------------------------------------------------------------- C25
\* C25: an AI request stays in flight through the step in which the last session of its
\* invoking user leaves the registry, and when the completion of a request whose invoker
\* has no session returns successfully, the response is appended to the chat history and
\* broadcast to every session that is registered with an open transport.
C25_RequestOutlivesInvoker ==
  [][/\ \A t \in Pending("ai") :
          (/\ SessionsOf(t.fromUser) # {}
           /\ \A c \in Conn : ~ (clients'[c].reg /\ clients'[c].userId = t.fromUser)) =>
            CopiesIn(t, tasks') = CopiesIn(t, tasks)
     /\ \A t \in Pending("ai"), r \in Completion :
          (r.ok /\ SessionsOf(t.fromUser) = {} /\ AIReturn(t, r)) =>
            /\ Len(sent') = 1
            /\ sent'[1].msg.type = "ai_response"
            /\ sent'[1].msg.inReplyTo = t.replyTo
            /\ sent'[1].rcpt = {c \in Conn : clients[c].reg /\ transport[c] = "OPEN"}
            /\ chatHistory' = HistoryPush(chatHistory, sent'[1].msg)]_vars

\* BOB's only session closed after his mention was sent; the response to it has just been
\* appended and broadcast to the sessions that are left
C25_Witness ==
  /\ Len(sent) = 1
  /\ sent[1].msg.type = "ai_response"
  /\ sent[1].rcpt # {}
  /\ chatHistory[Len(chatHistory)] = sent[1].msg
  /\ \E i \in 1..Len(chatHistory) :
       /\ chatHistory[i].id = sent[1].msg.inReplyTo
       /\ SessionsOf(chatHistory[i].from) = {}


\* ---------------------------------------------------------------- C26
\* C26: once the close event of a connection has been handled (its transport is CLOSED),
\* the registry holds no session for that connection, in every later state and also when
\* the close came while the connection's auth handler was suspended in loadState; and the
\* close event of a connection that has no session changes neither the registry nor the
\* history, notes, meetings or pending handlers, and sends nothing.
C26_ClosedStaysOut ==
  [][/\ \A c \in Conn : transport'[c] = "CLOSED" => ~ clients'[c].reg
     /\ \A c \in Conn :
          (~ clients[c].reg /\ CloseEvent(c)) =>
            /\ sent' = <<>>
            /\ UNCHANGED <<clients, chatHistory, notes, notesFile, activeMeetings, meetingObj,
                           tasks>>]_vars

\* the auth handler of a connection has just resumed after the connection's close event
\* was handled: its snapshot went nowhere and the registry does not hold it
C26_Witness ==
  /\ Len(sent) = 6
  /\ sent[1].msg.type = "state"
  /\ sent[1].rcpt = {}
  /\ \E c \in Conn : transport[c] = "CLOSED" /\ ~ clients[c].reg /\ Pending("auth") = {}


\* ---------------------------------------------------------------- C27
\* the sessions a broadcast reaches: registered, transport open
Reachable == {c \in Conn : clients[c].reg /\ transport[c] = "OPEN"}

\* C27: when handleAuth resumes it sends the state, history, notes and meetings messages,
\* in that order, to the registering connection and to no other (to nobody when its
\* transport is no longer open), then the join event to every registered session with an
\* open transport other than the registering one, then a presence event to every
\* registered session with an open transport.
C27_SnapshotToNewcomerJoinToOthers ==
  [][\A t \in Pending("auth") :
       AuthResume(t) =>
         /\ Len(sent') = 6
         /\ \A i \in 1..4 :
              /\ sent'[i].msg.type = <<"state", "history", "notes", "meetings">>[i]
              /\ sent'[i].rcpt = {t.conn} \cap {c \in Conn : transport[c] = "OPEN"}
         /\ sent'[5].msg.type = "join"
         /\ sent'[5].msg.userId = t.userId
         /\ sent'[5].rcpt = Reachable \ {t.conn}
         /\ sent'[6].msg.type = "presence"
         /\ sent'[6].rcpt = Reachable]_vars

\* a newcomer has just got its snapshot while one seated session, with an open transport,
\* got the join and the presence, and another, whose transport is closing, got neither
C27_Witness ==
  /\ Len(sent) = 6
  /\ sent[1].rcpt # {}
  /\ sent[5].rcpt # {}
  /\ sent[1].rcpt \cap sent[5].rcpt = {}
  /\ sent[6].rcpt = sent[5].rcpt \cup sent[1].rcpt
  /\ \E c \in Conn : clients[c].reg /\ transport[c] = "CLOSING"

\* ---------------------------------------------------------------- C28
\* C28: the history message handleAuth sends holds the last min(20, n) records of the
\* n-record chat history of the state in which it is sent, in history order.
C28_LastTwentyAtSendTime ==
  [][\A t \in Pending("auth") :
       AuthResume(t) =>
         LET n == Len(chatHistory)
             m == IF n < 20 THEN n ELSE 20
             messages == sent'[2].msg.messages
         IN /\ sent'[2].msg.type = "history"
            /\ Len(messages) = m
            /\ \A i \in 1..m : messages[i] = chatHistory[n - m + i]]_vars

\* a history message of 20 records has just been sent out of a history of 21, whose last
\* record is not one of the 20 the room started with
C28_Witness ==
  /\ Len(sent) = 6
  /\ sent[2].msg.type = "history"
  /\ sent[2].rcpt # {}
  /\ Len(chatHistory) = 21
  /\ Len(sent[2].msg.messages) = 20
  /\ sent[2].msg.messages[1].id = 2
  /\ sent[2].msg.messages[20].id = 21

\* ---------------------------------------------------------------- C29
\* C29: every broadcast made by a step reaches exactly the sessions that are registered
\* and have an open transport when it is made, less the excluded one (the registering
\* connection, for a join event); a registered session whose transport is not open is
\* passed over, and no connection without a session receives a broadcast.
C29_BroadcastReachesOpenSessions ==
  [][\A i \in 1..Len(sent') :
       sent'[i].via = "broadcast" =>
         LET exclude == IF sent'[i].msg.type = "join"
                          THEN {t.conn : t \in {x \in Pending("auth") : AuthResume(x)}}
                          ELSE {}
         IN sent'[i].rcpt =
              {c \in Conn : clients'[c].reg /\ transport'[c] = "OPEN"} \ exclude]_vars

\* a join event has just been broadcast past its own, open, session and past a registered
\* session whose transport is closing, and reached an open one
C29_Witness ==
  /\ Len(sent) = 6
  /\ sent[5].msg.type = "join"
  /\ sent[5].rcpt # {}
  /\ \E c \in Conn \ sent[5].rcpt : clients[c].reg /\ transport[c] = "OPEN"
  /\ \E c \in Conn \ sent[5].rcpt : clients[c].reg /\ transport[c] = "CLOSING"


\* ---------------------------------------------------------------- C30
\* C30: a payload that JSON.parse rejects is answered by one error event, sent to the
\* connection it came from and to no other, and a payload that parses to an object whose
\* type no case of handleMessage matches (or that has no type) is answered by nothing;
\* neither changes the registry, the history, the notes, the meetings or the handlers
\* that are pending.
C30_MalformedInbound ==
  [][\A c \in Conn, data \in RawData :
       OtherMessage(c, data) =>
         LET parsed == JSONParse(data)
         IN /\ ~ parsed.ok =>
                 /\ Len(sent') = 1
                 /\ sent'[1].msg.type = "error"
                 /\ sent'[1].rcpt = {c}
            /\ (parsed.ok /\ parsed.value # Null /\ parsed.value.type # Str(<<"ping">>)) =>
                 sent' = <<>>
            /\ (~ parsed.ok \/ (parsed.value # Null /\ parsed.value.type # Str(<<"ping">>))) =>
                 UNCHANGED <<clients, chatHistory, notes, notesFile, activeMeetings,
                             meetingObj, files, tasks>>]_vars

\* cut-off JSON has just been answered with an error to its sender alone, in a room with
\* another open session and a handler pending
C30_Witness ==
  /\ Len(sent) = 1
  /\ sent[1].via = "sendTo"
  /\ sent[1].msg.type = "error"
  /\ sent[1].msg.error = <<"Unexpected end of JSON input">>
  /\ Cardinality(sent[1].rcpt) = 1
  /\ \E c \in Conn \ sent[1].rcpt : clients[c].reg /\ transport[c] = "OPEN"
  /\ tasks # EmptyBag


\* ---------------------------------------------------------------- C31
\* C31: whenever no state_update handler is pending, state.json holds a value for every
\* key that a saved update has set.
C31_NoUpdateLost ==
  (Pending("stateload") = {} /\ Pending("statesave") = {}) =>
    \A key \in stateDue : stateFile[key] # NoValue


\* ---------------------------------------------------------------- C34
\* C34: a state_update that came from a connection without a session (no session is
\* registered or removed here, so it had none when the message arrived either) leaves
\* state.json as it was and sends nothing when its handler completes.
C34_NoSessionNoEffect ==
  [][\A t \in Pending("statesave") :
       (~ clients[t.conn].reg /\ StateSaved(t)) =>
         (stateFile' = stateFile /\ sent' = <<>>)]_vars


\* ---------------------------------------------------------------- C32
\* a handler is suspended in saveNotes
SaveInFlight ==
  \E t \in BagToSet(tasks) :
    t.kind \in {"noteAdd", "noteDelete"} \/ (t.kind = "end" /\ t.pc = "saveNotes")

\* C32: whenever no notes save is in flight, notes.json holds the in-memory notes list.
C32_FileEqualsMemory == ~ SaveInFlight => notesFile = notes


\* ---------------------------------------------------------------- C33
\* C33: every user id in the participant set of an active meeting is the user id of some
\* registered session.
C33_ParticipantsAreRegistered ==
  \A id \in IdPool :
    Active(id) =>
      \A i \in 1..Len(meetingObj[id].participants) :
        SessionsOf(meetingObj[id].participants[i]) # {}


\* ---------------------------------------------------------------- C35
\* C35: when the transcript write or the notes save of an end request fails, the meeting
\* is still active, the requester's connection is sent an error and nothing else is sent,
\* the meeting's transcript is not the finalized text the handler built (it has no footer
\* of this request), and the notes list does not hold the handler's transcript note.
C35_FailedEndChangesNothing ==
  [][\A t \in Pending("end") :
       (MeetingEndWriteFail(t) \/ MeetingEndSaveFail(t)) =>
         /\ Has(activeMeetings', t.meetingId)
         /\ Len(sent') = 1
         /\ sent'[1].msg.type = "error"
         /\ sent'[1].rcpt \subseteq {t.conn}
         /\ t.pc = "writeFile" =>
              Join(meetingObj'[t.meetingId].transcript, <<"\n">>) # t.transcriptText
         /\ t.pc = "saveNotes" => ~ Has(notes', t.note)]_vars


\* ---------------------------------------------------------------- C36
\* C36: when an end request completes, the transcript file it wrote holds the lines of the
\* meeting's transcript, all of them and in order.
C36_ArtifactHoldsEveryLine ==
  [][\A t \in Pending("end") :
       MeetingEndSaved(t) =>
         files[t.fileName] = Join(meetingObj[t.meetingId].transcript, <<"\n">>)]_vars


\* ---------------------------------------------------------------- C37
\* C37: a request whose ai_response has been broadcast (its handler is suspended in the
\* chat-log write of the response) gets no error broadcast as well, also when that write
\* fails.
C37_OneOutcomePerRequest ==
  [][\A t \in Pending("ailog") :
       AILogFail(t) => \A i \in 1..Len(sent') : sent'[i].msg.type # "error"]_vars


\* ---------------------------------------------------------------- C38
\* C38: every broadcast made by a step reaches only connections that have been sent their
\* snapshot, in an earlier step or earlier in the same step.
C38_SnapshotBeforeBroadcasts ==
  [][\A i \in 1..Len(sent') :
       sent'[i].via = "broadcast" => sent'[i].rcpt \subseteq greeted']_vars


\* ---------------------------------------------------------------- C39
\* the last send of the step is a presence broadcast
PresenceFollows ==
  /\ sent' # <<>>
  /\ sent'[Len(sent')].via = "broadcast"
  /\ sent'[Len(sent')].msg.type = "presence"

\* C39: every presence event is broadcast with one entry for each session registered at
\* that moment, carrying the session's user id, and with the virtual AI entry exactly when
\* no registered session has the AI user id, so that the AI user id is in every presence
\* event; and handling an auth, a move of a registered session or the close of a
\* registered session ends with a presence broadcast.
C39_PresenceListsSessionsAndAI ==
  [][/\ \A i \in 1..Len(sent') :
          sent'[i].msg.type = "presence" =>
            LET p == sent'[i].msg
                regs == {c \in Conn : clients'[c].reg}
            IN /\ sent'[i].via = "broadcast"
               /\ DOMAIN p.users = regs
               /\ \A c \in regs : p.users[c] = clients'[c].userId
               /\ p.virtualAI <=> (\A c \in regs : clients'[c].userId # AI_USER_ID)
               /\ p.virtualAI # (\E c \in DOMAIN p.users : p.users[c] = AI_USER_ID)
     /\ \A t \in Pending("auth") : AuthResume(t) => PresenceFollows
     /\ \A c \in Conn, place \in Place : (clients[c].reg /\ Move(c, place)) => PresenceFollows
     /\ \A c \in Conn : (clients[c].reg /\ CloseEvent(c)) => PresenceFollows]_vars

\* a move has just been followed by a presence event without the virtual entry, a session
\* having registered under the AI user id
C39_Witness ==
  /\ Len(sent) = 2
  /\ sent[1].msg.type = "move"
  /\ sent[2].msg.type = "presence"
  /\ ~ sent[2].msg.virtualAI
  /\ \E c \in DOMAIN sent[2].msg.users : sent[2].msg.users[c] = AI_USER_ID
  /\ \E c \in DOMAIN sent[2].msg.users : sent[2].msg.users[c] # AI_USER_ID


\* ---------------------------------------------------------------- C40
\* the system prompts a request of the session on connection c, which has a location, may
\* carry: the plain one, or the one with the notes within 500 m of that location
PromptsFor(c) ==
  {Preface(clients[c].userId),
   Preface(clients[c].userId)
     \o NotesBlock(getNotesNear(location[c].lat, location[c].lng, 500))}

\* C40: the completion request started by an invoke of a registered session that has a
\* location carries the plain system prompt or the one with the notes within 500 m of
\* that session's location.
C40_NotesNearTheSender ==
  [][\A c \in Conn :
       (clients[c].reg /\ location[c] # Null /\ InvokeStart(c, HELLO, NoReply)) =>
         \A t \in BagToSet(tasks') :
           (t.kind = "ai" /\ CopiesIn(t, tasks') > CopiesIn(t, tasks)) =>
             t.messages[1].content \in PromptsFor(c)]_vars

====
